---------------------------- MODULE Spec2Model ----------------------------
(***************************************************************************)
(* Model of the Elmo Modbus integration.                                   *)
(*                                                                         *)
(* Part I  (specification Spec): the register inventory                    *)
(*   (elmo_modbus/coordinator.py), the poll that runs its refresh() on an  *)
(*   executor thread, and the set_input_exclusion service                  *)
(*   (elmo_modbus/services.py) that runs write_coil on another executor    *)
(*   thread.  refresh() and the service's write job are cut at their       *)
(*   device requests: one step sends a request, the next consumes the      *)
(*   response, so that the two threads interleave as they do on the real   *)
(*   thread pool.                                                          *)
(***************************************************************************)
EXTENDS Integers, Sequences, FiniteSets, TLC

(***************************************************************************)
(* Bounds of the model.                                                    *)
(***************************************************************************)
MaxCoils == 2          \* coil addresses in play
MaxInputs == 3         \* discrete-input addresses in play
MaxRegisters == 1      \* holding-register addresses in play
MaxRegisterValue == 0  \* a holding register reads 0..MaxRegisterValue
MaxPolls == 1          \* polls started in one behaviour
MaxSectors == 1        \* the configured number of sectors
MaxPanelSectors == 3   \* the sectors an alarm panel's commands may target
MaxStatusSectors == 9  \* the longest status a derivation is given
MaxWrites == 2         \* write calls (service calls, write_coils) in one behaviour
MaxLiveBits == 3       \* leading bits of a span the device ever sets
MaxEntries == 2        \* config entries of the integration
MaxInput == 3          \* max_input: the alarm inputs of a selection
MaxText == 5           \* characters of a selection text
MaxCodes == 2          \* lines of the user codes form

(***************************************************************************)
(* Program constants.                                                      *)
(***************************************************************************)
INPUT_SENSOR_EXCLUDED_START == 8193
INPUT_SENSOR_START == 4097
TEMPERATURE_REGISTER == 384
REGISTER_STATUS_START == 12289
REGISTER_ALARM_START == 5121
DEFAULT_SECTORS == 64

CoilAddresses == INPUT_SENSOR_EXCLUDED_START .. (INPUT_SENSOR_EXCLUDED_START + MaxCoils - 1)
InputAddresses == INPUT_SENSOR_START .. (INPUT_SENSOR_START + MaxInputs - 1)
RegisterAddresses == TEMPERATURE_REGISTER .. (TEMPERATURE_REGISTER + MaxRegisters - 1)
RegisterValues == 0 .. MaxRegisterValue

\* Python's None, for a holding register whose value the response did not carry.
NoneRegister == -1
\* Python's None, for a status or a snapshot that does not exist yet.
None == [none |-> TRUE]

EmptyMap == << >>

Min(S) == CHOOSE x \in S : \A y \in S : x <= y

\* d[address] = value, creating the entry when it is missing.
SetItem(d, address, value) ==
    [a \in (DOMAIN d) \cup {address} |-> IF a = address THEN value ELSE d[a]]

\* d.update(e)
Update(d, e) ==
    [a \in (DOMAIN d) \cup (DOMAIN e) |-> IF a \in DOMAIN e THEN e[a] ELSE d[a]]

\* The elements of a set from the largest to the smallest.
RECURSIVE SortedDescending(_)
SortedDescending(S) ==
    IF S = {} THEN << >>
    ELSE LET m == CHOOSE x \in S : \A y \in S : y <= x
         IN <<m>> \o SortedDescending(S \ {m})

\* sorted(...)
RECURSIVE Sorted(_)
Sorted(S) ==
    IF S = {} THEN << >>
    ELSE LET m == Min(S) IN <<m>> \o Sorted(S \ {m})

\* One group of _prepare_address_groups: (current[0], len(current), tuple(current)).
MakeGroup(current) ==
    [start |-> current[1], count |-> Len(current), addresses |-> current]

\* A walk that never closes a group: every later address joins the current one.
GroupWalkWithoutSplit(rest, current, groups) ==
    Append(groups, MakeGroup(current \o rest))

RECURSIVE GroupWalk(_, _, _)
GroupWalk(rest, current, groups) ==
    IF rest = << >>
    THEN Append(groups, MakeGroup(current))
    ELSE LET address == Head(rest) IN
         IF address = current[Len(current)] + 1
         THEN GroupWalk(Tail(rest), Append(current, address), groups)
         ELSE GroupWalk(Tail(rest), <<address>>, Append(groups, MakeGroup(current)))

\* The groups of _prepare_address_groups(addresses).
PrepareAddressGroups(addresses) ==
    LET ordered == Sorted(addresses) IN
    IF ordered = << >> THEN << >>
    ELSE GroupWalk(Tail(ordered), <<Head(ordered)>>, << >>)

\* A loop that stores the first value of the response under every address.
DistributeFirst(group, values, default) ==
    [a \in {group.addresses[i] : i \in 1..group.count} |->
        IF 1 <= Len(values) THEN values[1] ELSE default]

\* results[address] = bits[index] if index < len(bits) else <default>
Distribute(group, values, default) ==
    [a \in {group.addresses[i] : i \in 1..group.count} |->
        LET i == CHOOSE j \in 1..group.count : group.addresses[j] = a IN
        IF i <= Len(values) THEN values[i] ELSE default]

\* ElmoModbusInventory.__init__: self._sector_count = max(1, min(sector_count, DEFAULT_SECTORS))
ClampSectorCount(n) ==
    LET low == IF n < DEFAULT_SECTORS THEN n ELSE DEFAULT_SECTORS IN
    IF low > 1 THEN low ELSE 1

VARIABLES
    sector_count,         \* ElmoModbusInventory._sector_count
    status_required,      \* ElmoModbusInventory._status_required
    discrete_inputs,      \* ElmoModbusInventory._discrete_inputs (registered)
    coils,                \* ElmoModbusInventory._coils (registered)
    holding_registers,    \* ElmoModbusInventory._holding_registers (registered)
    cached_status,        \* ElmoModbusInventory._cached_status
    cached_inputs,        \* ElmoModbusInventory._cached_inputs
    cached_coils,         \* ElmoModbusInventory._cached_coils
    cached_registers,     \* ElmoModbusInventory._cached_registers
    device_coils,         \* the coils of the device
    refresh_job,          \* the executor job running ElmoModbusInventory.refresh
    write_job,            \* the executor job running the service's _write
    poller,               \* "Idle" or "Polling"
    refresh_requested,    \* a refresh was requested while Polling
    data,                 \* coordinator.data: the published snapshot
    last_update_success,  \* coordinator.last_update_success
    polls,                \* polls started so far
    writes,               \* write calls started so far
    written,              \* history: the addresses write_coil has succeeded on
    device_armed,         \* the sectors armed on the device
    command_job,          \* the alarm panel's command and its executor job
    panel,                \* the PanelDefinition of the alarm panel entity
    alarm_state,          \* the state the alarm panel entity last reported
    device_healthy,       \* the device answers every request correctly from now on
    options,              \* the options of the config entry (entry.options)
    flow,                 \* the options flow handler, while one is open
    definitions,          \* the PanelDefinitions the alarm panel entities were set up with
    call,                 \* history: the last registration call and what it returned
    arguments,            \* the arguments of the call under study
    result,               \* what a helper function returned for them
    hass,                 \* hass.data[DOMAIN], the service registry and the config entries
    user_codes            \* ElmoModbusAlarmControlPanel._user_codes

inventory_vars ==
    <<sector_count, status_required, discrete_inputs, coils, holding_registers,
      cached_status, cached_inputs, cached_coils, cached_registers>>

vars ==
    <<sector_count, status_required, discrete_inputs, coils,
      holding_registers, cached_status, cached_inputs, cached_coils,
      cached_registers, device_coils, refresh_job, write_job, poller,
      refresh_requested, data, last_update_success, polls, writes, written,
      device_armed, command_job, panel, alarm_state, device_healthy, options, flow,
                   definitions, call, arguments, result, hass, user_codes>>


(***************************************************************************)
(* The device and its responses.                                           *)
(***************************************************************************)
\* A response is missing ("none"), an error response ("error") or a
\* well-formed one ("ok") carrying bits or registers.
NoResponse == [kind |-> "idle", values |-> << >>]
FailureKinds == {"none", "error"}

\* What may happen to a request.  _ensure_client_connected comes first: the
\* connection may have dropped at any time, and connect() then fails
\* ("unconnected": ConnectionException before anything is sent) or succeeds;
\* a request that is sent gets a good response, none, or an error response.
Outcomes == {"unconnected", "ok"} \cup FailureKinds

\* What may happen to a request now: a device that has recovered answers every
\* request correctly.
PossibleOutcomes == IF device_healthy THEN {"ok"} ELSE Outcomes

\* pymodbus pads the bits of a response to a whole number of bytes.
PaddedLen(count) == 8 * ((count + 7) \div 8)

Pad(bits, count) ==
    [i \in 1..PaddedLen(count) |-> IF i <= count THEN bits[i] ELSE FALSE]

\* A response that carries one byte less than the request asked for.
Short(bits, count) == SubSeq(bits, 1, PaddedLen(count) - 8)

\* The responses a device may give for the bits of a request: all of them, or
\* a byte less when more than one byte was asked for.
FullOrShort(full, count) ==
    full \cup (IF PaddedLen(count) > 8 THEN {Short(bits, count) : bits \in full} ELSE {})

\* What the device may answer to read_discrete_inputs(start, count).  Only
\* the first MaxLiveBits bits of a span are ever set.
InputResponses(group) ==
    LET live == 1..(IF group.count < MaxLiveBits THEN group.count ELSE MaxLiveBits)
    IN  FullOrShort({Pad([i \in 1..group.count |-> i \in live /\ f[i]], group.count) :
                        f \in [live -> BOOLEAN]},
                    group.count)

\* What the device answers to read_coils(start, count): its coils.
CoilResponses(group) ==
    FullOrShort({Pad([i \in 1..group.count |-> device_coils[group.start + i - 1]],
                     group.count)},
                group.count)

\* What the device may answer to read_holding_registers(start, count): the
\* registers, or a response that carries none.
RegisterResponses(group) ==
    [1..group.count -> RegisterValues] \cup {<< >>}

OkResponses(class, group) ==
    CASE class = "status" -> InputResponses(group)
      [] class = "inputs" -> InputResponses(group)
      [] class = "coils" -> CoilResponses(group)
      [] class = "registers" -> RegisterResponses(group)

\* A check of the response that forgets `response.isError()`.
IsFailureMissesError(resp) == resp.kind = "none"

\* A check of the response that forgets `not response`.
IsFailureMissesNone(resp) == resp.kind = "error"

\* `not response or response.isError()`
IsFailure(resp) == resp.kind \in FailureKinds

(***************************************************************************)
(* ElmoModbusInventory                                                     *)
(***************************************************************************)
IdleRefresh ==
    [pc |-> "idle", phase |-> "begin", groups |-> << >>, results |-> << >>,
     resp |-> NoResponse, status |-> None, inputs |-> EmptyMap,
     coils |-> EmptyMap, registers |-> EmptyMap, aliased |-> FALSE,
     snapshot |-> None, before |-> None, requests |-> << >>]

IdleWrite ==
    [pc |-> "idle", kind |-> "none", addresses |-> << >>, value |-> FALSE,
     start |-> 0, payload |-> << >>, resp |-> NoResponse]

\* A PanelDefinition without modes and without extra disarm sectors.
NoPanel ==
    [modes |-> [away |-> {}, home |-> {}, night |-> {}],
     extra_disarm_sectors |-> {}]

\* entry.options of an installation whose options were never saved.
NoOptions ==
    [has_panels |-> FALSE, panels |-> << >>,
     legacy |-> [away |-> {}, home |-> {}, night |-> {}, disarm |-> {}]]

\* No options flow is open.
NoFlow == [open |-> FALSE, panels |-> << >>, panel_index |-> 0, sector_limit |-> 0]

\* No helper function has returned yet.
NoResult == [done |-> FALSE]

\* No registration call was made yet.
NoCall == [op |-> "none", addresses |-> {}, returned |-> FALSE, turn |-> 0]

\* The config entries of the integration.
EntryIds == 1..MaxEntries

\* A config entry that is not set up: nothing of it in hass.data[DOMAIN], no
\* client.
NotLoaded ==
    [state |-> "not_loaded", stored |-> FALSE, connected |-> FALSE,
     refreshed |-> FALSE, closed |-> FALSE]

\* Home Assistant before any entry of the integration is set up: no service
\* state, no service in the registry.
NoHass ==
    [entries |-> [e \in EntryIds |-> NotLoaded], registered |-> FALSE,
     services |-> 0]

\* No command of the alarm panel is under way.
IdleCommand ==
    [pc |-> "idle", target_sectors |-> {}, value |-> FALSE, payload |-> << >>]

Init ==
    /\ sector_count = ClampSectorCount(MaxSectors)
    /\ status_required = TRUE
    /\ discrete_inputs = {}
    /\ coils = {}
    /\ holding_registers = {}
    /\ cached_status = None
    /\ cached_inputs = EmptyMap
    /\ cached_coils = EmptyMap
    /\ cached_registers = EmptyMap
    /\ device_coils \in [CoilAddresses -> BOOLEAN]
    /\ refresh_job = IdleRefresh
    /\ write_job = IdleWrite
    /\ poller = "Idle"
    /\ refresh_requested = FALSE
    /\ data = None
    /\ last_update_success = TRUE
    /\ polls = 0
    /\ writes = 0
    /\ written = {}
    /\ device_armed = {}
    /\ command_job = IdleCommand
    /\ panel = NoPanel
    /\ alarm_state = "unknown"
    /\ device_healthy = FALSE
    /\ options = NoOptions
    /\ flow = NoFlow
    /\ definitions = << >>
    /\ call = NoCall
    /\ arguments = << >>
    /\ result = NoResult
    /\ hass = NoHass
    /\ user_codes = << >>

\* A registration that always reports a change.
AddReturnAlways(before, after) == TRUE

\* `return before != self._discrete_inputs` (and its two likes)
AddReturn(before, after) == before # after

\* add_discrete_inputs, as binary_sensor.async_setup_entry calls it: a changed
\* set requests a refresh.
AddDiscreteInputs(addresses) ==
    /\ discrete_inputs' = discrete_inputs \cup addresses
    /\ refresh_requested' =
          (refresh_requested \/ AddReturn(discrete_inputs, discrete_inputs'))
    /\ UNCHANGED <<sector_count, status_required, coils,
                   holding_registers, cached_status, cached_inputs, cached_coils,
                   cached_registers, device_coils, refresh_job, write_job, poller,
                   data, last_update_success, polls, writes, written, device_armed, command_job,
                   panel, alarm_state, device_healthy, options, flow,
                   definitions, arguments, result, hass, user_codes>>

\* add_coils
AddCoils(addresses) ==
    /\ coils' = coils \cup addresses
    /\ UNCHANGED <<sector_count, status_required, discrete_inputs,
                   holding_registers, cached_status, cached_inputs, cached_coils,
                   cached_registers, device_coils, refresh_job, write_job, poller,
                   refresh_requested, data, last_update_success, polls, writes, written, device_armed, command_job,
                   panel, alarm_state, device_healthy, options, flow,
                   definitions, arguments, result, hass, user_codes>>

\* add_holding_registers
AddHoldingRegisters(addresses) ==
    /\ holding_registers' = holding_registers \cup addresses
    /\ UNCHANGED <<sector_count, status_required, discrete_inputs,
                   coils, cached_status, cached_inputs, cached_coils,
                   cached_registers, device_coils, refresh_job, write_job, poller,
                   refresh_requested, data, last_update_success, polls, writes, written, device_armed, command_job,
                   panel, alarm_state, device_healthy, options, flow,
                   definitions, arguments, result, hass, user_codes>>

(***************************************************************************)
(* The poll: ElmoModbusCoordinator._async_update_data hands                *)
(* ElmoModbusInventory.refresh to an executor thread.                      *)
(***************************************************************************)
\* A timer tick or a pending refresh request starts a poll when none is in
\* flight.
PollStart ==
    /\ poller = "Idle"
    /\ polls < MaxPolls
    /\ poller' = "Polling"
    /\ refresh_requested' = FALSE
    /\ polls' = polls + 1
    /\ refresh_job' = [IdleRefresh EXCEPT !.pc = "start"]
    /\ UNCHANGED <<inventory_vars, device_coils, write_job, data,
                   last_update_success, writes, written, device_armed, command_job,
                   panel, alarm_state, device_healthy, options, flow,
                   definitions, call, arguments, result, hass, user_codes>>

\* The four caches of the inventory.
Cached ==
    [status |-> cached_status, discrete_inputs |-> cached_inputs,
     coils |-> cached_coils, holding_registers |-> cached_registers]

\* refresh(), lines 143-146: the locals start as the cached values.  `before`
\* remembers the caches as the call found them.
RefreshBegin ==
    /\ refresh_job.pc = "start"
    /\ refresh_job' = [refresh_job EXCEPT !.pc = "status",
                                          !.phase = "begin",
                                          !.status = cached_status,
                                          !.inputs = cached_inputs,
                                          !.coils = cached_coils,
                                          !.registers = cached_registers,
                                          !.before = Cached]
    /\ UNCHANGED <<inventory_vars, device_coils, write_job, poller,
                   refresh_requested, data, last_update_success, polls, writes, written, device_armed, command_job,
                   panel, alarm_state, device_healthy, options, flow,
                   definitions, call, arguments, result, hass, user_codes>>

\* The order in which refresh() goes through the address classes.
NextClass(class) ==
    CASE class = "status" -> "inputs"
      [] class = "inputs" -> "coils"
      [] class = "coils" -> "registers"
      [] class = "registers" -> "return"

\* `if self._status_required:`, `if self._discrete_inputs:`, ...
ClassWanted(class) ==
    CASE class = "status" -> status_required
      [] class = "inputs" -> discrete_inputs # {}
      [] class = "coils" -> coils # {}
      [] class = "registers" -> holding_registers # {}

\* The reads of a class: the two spans of _read_status, or the address groups
\* of the registered set.
ClassGroups(class) ==
    CASE class = "status" ->
           << [start |-> REGISTER_STATUS_START, count |-> sector_count, addresses |-> << >>],
              [start |-> REGISTER_ALARM_START, count |-> sector_count, addresses |-> << >>] >>
      [] class = "inputs" -> PrepareAddressGroups(discrete_inputs)
      [] class = "coils" -> PrepareAddressGroups(coils)
      [] class = "registers" -> PrepareAddressGroups(holding_registers)

\* bits[: self._sector_count]
Trim(bits, count) == SubSeq(bits, 1, IF Len(bits) < count THEN Len(bits) ELSE count)

\* The results of a class after one more response.
Collect(class, results, group, values) ==
    CASE class = "status" -> Append(results, Trim(values, sector_count))
      [] class = "inputs" -> Update(results, Distribute(group, values, FALSE))
      [] class = "coils" -> Update(results, Distribute(group, values, FALSE))
      [] class = "registers" -> Update(results, Distribute(group, values, NoneRegister))

\* What a class's read function returns.
ClassValue(class, results) ==
    IF class = "status"
    THEN [armed |-> results[1], triggered |-> results[2]]
    ELSE results

\* A class of refresh() begins: skipped when nothing is registered, else its
\* groups are prepared.
ClassBegin(class) ==
    /\ refresh_job.pc = class
    /\ refresh_job.phase = "begin"
    /\ refresh_job' =
         IF ClassWanted(class)
         THEN [refresh_job EXCEPT !.phase = "send",
                                  !.groups = ClassGroups(class),
                                  !.results = << >>]
         ELSE [refresh_job EXCEPT !.pc = NextClass(class)]
    /\ UNCHANGED <<inventory_vars, device_coils, write_job, poller,
                   refresh_requested, data, last_update_success, polls, writes, written, device_armed, command_job,
                   panel, alarm_state, device_healthy, options, flow,
                   definitions, call, arguments, result, hass, user_codes>>

\* The read request of a group, self._client.read_...(start, count=count),
\* with the response it gets.
ReadRequest(class, group, resp) ==
    [class |-> class, start |-> group.start, count |-> group.count, resp |-> resp]

\* _ensure_client_connected, then the read request of the next group goes out.
\* `requests` remembers the reads the call has sent.
GroupSend(class) ==
    /\ refresh_job.pc = class
    /\ refresh_job.phase = "send"
    /\ \E outcome \in PossibleOutcomes :
         \E values \in OkResponses(class, Head(refresh_job.groups)) :
           LET resp == [kind |-> outcome,
                        values |-> IF outcome = "ok" THEN values ELSE << >>]
           IN refresh_job' =
                IF outcome = "unconnected"
                THEN [refresh_job EXCEPT !.pc = "raised"]
                ELSE [refresh_job EXCEPT !.phase = "wait",
                        !.resp = resp,
                        !.requests = Append(@, ReadRequest(class,
                                                Head(refresh_job.groups), resp))]
    /\ UNCHANGED <<inventory_vars, device_coils, write_job, poller,
                   refresh_requested, data, last_update_success, polls, writes, written, device_armed, command_job,
                   panel, alarm_state, device_healthy, options, flow,
                   definitions, call, arguments, result, hass, user_codes>>

\* The cache assignment that follows a class's read in refresh().
AssignCache(class, value) ==
    /\ cached_status' = IF class = "status" THEN value ELSE cached_status
    /\ cached_inputs' = IF class = "inputs" THEN value ELSE cached_inputs
    /\ cached_coils' = IF class = "coils" THEN value ELSE cached_coils
    /\ cached_registers' = IF class = "registers" THEN value ELSE cached_registers

\* The locals of refresh() once a class has been read.
AssignLocal(job, class, value) ==
    [job EXCEPT !.status = IF class = "status" THEN value ELSE @,
                !.inputs = IF class = "inputs" THEN value ELSE @,
                !.coils = IF class = "coils" THEN value ELSE @,
                !.aliased = IF class = "coils" THEN TRUE ELSE @,
                !.registers = IF class = "registers" THEN value ELSE @]

\* The response of a group arrives: a failure raises ConnectionException, a
\* good one is distributed over the group's addresses; after the last group
\* the class's cache is replaced by the results.
GroupRecv(class) ==
    /\ refresh_job.pc = class
    /\ refresh_job.phase = "wait"
    /\ LET group == Head(refresh_job.groups)
           rest == Tail(refresh_job.groups)
           results == Collect(class, refresh_job.results, group, refresh_job.resp.values)
       IN
       IF IsFailure(refresh_job.resp)
       THEN /\ refresh_job' = [refresh_job EXCEPT !.pc = "raised", !.resp = NoResponse]
            /\ UNCHANGED <<cached_status, cached_inputs, cached_coils, cached_registers>>
       ELSE IF rest # << >>
       THEN /\ refresh_job' = [refresh_job EXCEPT !.phase = "send", !.groups = rest,
                                                  !.results = results,
                                                  !.resp = NoResponse]
            /\ UNCHANGED <<cached_status, cached_inputs, cached_coils, cached_registers>>
       ELSE /\ refresh_job' =
                 [AssignLocal(refresh_job, class, ClassValue(class, results))
                    EXCEPT !.pc = NextClass(class), !.phase = "begin",
                           !.groups = << >>, !.results = << >>, !.resp = NoResponse]
            /\ AssignCache(class, ClassValue(class, results))
    /\ UNCHANGED <<sector_count, status_required, discrete_inputs, coils,
                   holding_registers, device_coils, write_job, poller,
                   refresh_requested, data, last_update_success, polls, writes, written, device_armed, command_job,
                   panel, alarm_state, device_healthy, options, flow,
                   definitions, call, arguments, result, hass, user_codes>>

ReadStatusBegin == ClassBegin("status")
ReadStatusSend == GroupSend("status")
ReadStatusRecv == GroupRecv("status")
ReadDiscreteInputsBegin == ClassBegin("inputs")
ReadDiscreteInputsSend == GroupSend("inputs")
ReadDiscreteInputsRecv == GroupRecv("inputs")
ReadCoilsBegin == ClassBegin("coils")
ReadCoilsSend == GroupSend("coils")
ReadCoilsRecv == GroupRecv("coils")
ReadHoldingRegistersBegin == ClassBegin("registers")
ReadHoldingRegistersSend == GroupSend("registers")
ReadHoldingRegistersRecv == GroupRecv("registers")

\* The local `coils` of a refresh() that starts from an empty dict.
LocalCoilsFromEmpty(job) == IF job.aliased THEN cached_coils ELSE EmptyMap

\* The local `coils` of refresh(): once the cache has been assigned from it,
\* the local and the cache are the same dict.
LocalCoils(job) == IF job.aliased THEN cached_coils ELSE job.coils

\* A snapshot built from the locals themselves: its coils are the dict the
\* cache holds whenever the local is.
SnapshotSharesLocals(job) == IF job.aliased THEN {"coils"} ELSE {}

\* refresh(), lines 166-168: dict(...) copies each local, so the snapshot
\* shares no dict with the cache.  The result names the maps of the snapshot
\* that are the very dict the cache holds.
SnapshotShares(job) == {}

\* The coils of a snapshot as a reader finds them: a shared dict shows what
\* the cache holds now, a copy what it held when the snapshot was made.
SnapshotCoils(snapshot) ==
    IF "coils" \in snapshot.shared THEN cached_coils ELSE snapshot.coils

\* refresh(), lines 164-169: the snapshot holds copies of the locals.
RefreshReturn ==
    /\ refresh_job.pc = "return"
    /\ refresh_job' =
         [refresh_job EXCEPT !.pc = "returned",
            !.snapshot = [status |-> refresh_job.status,
                          discrete_inputs |-> refresh_job.inputs,
                          coils |-> LocalCoils(refresh_job),
                          holding_registers |-> refresh_job.registers,
                          shared |-> SnapshotShares(refresh_job)]]
    /\ UNCHANGED <<inventory_vars, device_coils, write_job, poller,
                   refresh_requested, data, last_update_success, polls, writes, written, device_armed, command_job,
                   panel, alarm_state, device_healthy, options, flow,
                   definitions, call, arguments, result, hass, user_codes>>

\* A poll whose failure escapes: it never ends.
PollFinishEscapes ==
    /\ refresh_job.pc = "returned"
    /\ data' = refresh_job.snapshot
    /\ last_update_success' = TRUE
    /\ poller' = "Idle"
    /\ refresh_job' = IdleRefresh
    /\ UNCHANGED <<inventory_vars, device_coils, write_job,
                   refresh_requested, polls, writes, written, device_armed,
                   command_job, panel, alarm_state, device_healthy, options, flow,
                   definitions, call, arguments, result, hass, user_codes>>

\* The poll ends: a snapshot is published, a failure (UpdateFailed) keeps the
\* published data and flags it.
PollFinish ==
    /\ refresh_job.pc \in {"returned", "raised"}
    /\ data' = IF refresh_job.pc = "returned" THEN refresh_job.snapshot ELSE data
    /\ last_update_success' = (refresh_job.pc = "returned")
    /\ poller' = "Idle"
    /\ refresh_job' = IdleRefresh
    /\ UNCHANGED <<inventory_vars, device_coils, write_job,
                   refresh_requested, polls, writes, written, device_armed, command_job,
                   panel, alarm_state, device_healthy, options, flow,
                   definitions, call, arguments, result, hass, user_codes>>

(***************************************************************************)
(* Writes: the set_input_exclusion service runs write_coil for each        *)
(* selected input on an executor thread; write_coils is called the same    *)
(* way by a command.                                                       *)
(***************************************************************************)
\* The inputs a service call may select.
InputIndexes == 1..MaxCoils

\* A service that writes the flag as it is given.
DesiredValueOfExcluded(excluded) == excluded

\* desired_value = not excluded: False excludes an input, True activates it.
DesiredValue(excluded) == ~excluded

\* The exclusion coil of an input (line 422).
ExclusionAddress(index) == INPUT_SENSOR_EXCLUDED_START + index - 1

\* _async_handle_set_input_exclusion, lines 407-430: the addresses of the
\* selected inputs in ascending order, the value to write, and the job.
ServiceCall(selected_inputs, excluded) ==
    /\ write_job.pc = "idle"
    /\ writes < MaxWrites
    /\ selected_inputs # {}
    /\ writes' = writes + 1
    /\ write_job' =
         [IdleWrite EXCEPT
            !.pc = "send",
            !.kind = "coil",
            !.addresses =
               LET ordered == Sorted(selected_inputs) IN
               [i \in 1..Len(ordered) |-> ExclusionAddress(ordered[i])],
            !.value = DesiredValue(excluded)]
    /\ UNCHANGED <<inventory_vars, device_coils, refresh_job, poller,
                   refresh_requested, data, last_update_success, polls, written, device_armed, command_job,
                   panel, alarm_state, device_healthy, options, flow,
                   definitions, call, result, hass, user_codes>>

\* write_coil, lines 245-247: _ensure_client_connected, then the request goes
\* out; the device applies a write it answers.
WriteCoilSend ==
    /\ write_job.pc = "send"
    /\ write_job.kind = "coil"
    /\ \E outcome \in PossibleOutcomes :
         IF outcome = "unconnected"
         THEN /\ write_job' = [write_job EXCEPT !.pc = "raised"]
              /\ UNCHANGED device_coils
         ELSE /\ write_job' = [write_job EXCEPT !.pc = "wait",
                                 !.resp = [kind |-> outcome, values |-> << >>]]
              /\ device_coils' =
                   IF outcome = "ok"
                   THEN [device_coils EXCEPT ![Head(write_job.addresses)] = write_job.value]
                   ELSE device_coils
    /\ UNCHANGED <<inventory_vars, refresh_job, poller, refresh_requested, data,
                   last_update_success, polls, writes, written, device_armed, command_job,
                   panel, alarm_state, device_healthy, options, flow,
                   definitions, call, arguments, result, hass, user_codes>>

\* The cache after write_coil(address, value) got its response.
WriteCoilCache(address, value) == SetItem(cached_coils, address, value)

\* write_coil, lines 248-250: a failure raises ConnectionException and ends the
\* job; a good response updates the cache entry, and the job goes on with the
\* next address.
WriteCoilRecv ==
    /\ write_job.pc = "wait"
    /\ write_job.kind = "coil"
    /\ IF IsFailure(write_job.resp)
       THEN /\ write_job' = [write_job EXCEPT !.pc = "raised", !.resp = NoResponse]
            /\ UNCHANGED <<cached_coils, written, device_armed, command_job,
                   panel, alarm_state, device_healthy, options, flow,
                   definitions, call, arguments, result, hass, user_codes>>
       ELSE /\ cached_coils' = WriteCoilCache(Head(write_job.addresses), write_job.value)
            /\ written' = written \cup {Head(write_job.addresses)}
            /\ write_job' =
                 [write_job EXCEPT !.addresses = Tail(write_job.addresses),
                                   !.resp = NoResponse,
                                   !.pc = IF Tail(write_job.addresses) = << >>
                                          THEN "done" ELSE "send"]
    /\ UNCHANGED <<sector_count, status_required, discrete_inputs, coils,
                   holding_registers, cached_status, cached_inputs, cached_registers,
                   device_coils, refresh_job, poller, refresh_requested, data,
                   last_update_success, polls, writes, device_armed, command_job,
                   panel, alarm_state, device_healthy, options, flow,
                   definitions, call, arguments, result, hass, user_codes>>

\* The payloads a command may write from `start`: they stay on the device.
Payloads(start) ==
    UNION {[1..n -> BOOLEAN] : n \in 0..(INPUT_SENSOR_EXCLUDED_START + MaxCoils - start)}

\* write_coils, lines 255-257: an empty payload returns at once.
WriteCoilsCall(start, values) ==
    /\ write_job.pc = "idle"
    /\ writes < MaxWrites
    /\ writes' = writes + 1
    /\ write_job' = [IdleWrite EXCEPT !.pc = IF values = << >> THEN "done" ELSE "send",
                                      !.kind = "coils",
                                      !.start = start,
                                      !.payload = values]
    /\ UNCHANGED <<inventory_vars, device_coils, refresh_job, poller,
                   refresh_requested, data, last_update_success, polls, written, device_armed, command_job,
                   panel, alarm_state, device_healthy, options, flow,
                   definitions, call, arguments, result, hass, user_codes>>

\* write_coils, lines 259-260.
WriteCoilsSend ==
    /\ write_job.pc = "send"
    /\ write_job.kind = "coils"
    /\ \E outcome \in PossibleOutcomes :
         IF outcome = "unconnected"
         THEN /\ write_job' = [write_job EXCEPT !.pc = "raised"]
              /\ UNCHANGED device_coils
         ELSE /\ write_job' = [write_job EXCEPT !.pc = "wait",
                                 !.resp = [kind |-> outcome, values |-> << >>]]
              /\ device_coils' =
                   IF outcome = "ok"
                   THEN [a \in CoilAddresses |->
                           IF a - write_job.start + 1 \in 1..Len(write_job.payload)
                           THEN write_job.payload[a - write_job.start + 1]
                           ELSE device_coils[a]]
                   ELSE device_coils
    /\ UNCHANGED <<inventory_vars, refresh_job, poller, refresh_requested, data,
                   last_update_success, polls, writes, written, device_armed, command_job,
                   panel, alarm_state, device_healthy, options, flow,
                   definitions, call, arguments, result, hass, user_codes>>

\* The addresses of a written span whose cache entry write_coils sets.
Tracked(address) == address \in coils \/ address \in DOMAIN cached_coils

\* A write_coils that sets the cache entry of every address of the span, as
\* write_coil does for its one address.
WriteCoilsCacheAll(start, payload) ==
    LET span == {start + offset - 1 : offset \in 1..Len(payload)}
    IN [a \in (DOMAIN cached_coils) \cup span |->
          IF a \in span THEN payload[a - start + 1] ELSE cached_coils[a]]

\* The cache after write_coils(start, payload) got its response (lines 264-267).
WriteCoilsCache(start, payload) ==
    LET span == {start + offset - 1 : offset \in 1..Len(payload)}
        hit == {a \in span : Tracked(a)}
    IN [a \in (DOMAIN cached_coils) \cup hit |->
          IF a \in hit THEN payload[a - start + 1] ELSE cached_coils[a]]

\* write_coils, lines 261-267.
WriteCoilsRecv ==
    /\ write_job.pc = "wait"
    /\ write_job.kind = "coils"
    /\ IF IsFailure(write_job.resp)
       THEN /\ write_job' = [write_job EXCEPT !.pc = "raised", !.resp = NoResponse]
            /\ UNCHANGED cached_coils
       ELSE /\ cached_coils' = WriteCoilsCache(write_job.start, write_job.payload)
            /\ write_job' = [write_job EXCEPT !.pc = "done", !.resp = NoResponse]
    /\ UNCHANGED <<sector_count, status_required, discrete_inputs, coils,
                   holding_registers, cached_status, cached_inputs, cached_registers,
                   device_coils, refresh_job, poller, refresh_requested, data,
                   last_update_success, polls, writes, written, device_armed, command_job,
                   panel, alarm_state, device_healthy, options, flow,
                   definitions, call, arguments, result, hass, user_codes>>

\* The caller after its write job: a failure is raised to the caller
\* (HomeAssistantError) and nothing else happens; after a success it calls
\* coordinator.async_request_refresh().
WriteFinish ==
    /\ write_job.pc \in {"done", "raised"}
    /\ refresh_requested' = (refresh_requested \/ write_job.pc = "done")
    /\ write_job' = IdleWrite
    /\ UNCHANGED <<inventory_vars, device_coils, refresh_job, poller,
                   data, last_update_success, polls, writes, written, device_armed, command_job,
                   panel, alarm_state, device_healthy, options, flow,
                   definitions, call, arguments, result, hass, user_codes>>

(***************************************************************************)
(* SpecRefresh: registrations and polls of an installation that writes no  *)
(* coil.  A registration or a poll starts when no poll is in flight.       *)
(***************************************************************************)
Quiet == poller = "Idle" /\ write_job.pc = "idle"

SerialAddDiscreteInputs(addresses) ==
    Quiet /\ AddDiscreteInputs(addresses) /\ UNCHANGED call

SerialAddCoils(addresses) ==
    Quiet /\ AddCoils(addresses) /\ UNCHANGED call

SerialAddHoldingRegisters(addresses) ==
    Quiet /\ AddHoldingRegisters(addresses) /\ UNCHANGED call

SerialPollStart == Quiet /\ PollStart

NextRefresh ==
    \/ \E addresses \in SUBSET InputAddresses : SerialAddDiscreteInputs(addresses)
    \/ \E addresses \in SUBSET CoilAddresses : SerialAddCoils(addresses)
    \/ \E addresses \in SUBSET RegisterAddresses : SerialAddHoldingRegisters(addresses)
    \/ SerialPollStart
    \/ RefreshBegin
    \/ ReadStatusBegin
    \/ ReadStatusSend
    \/ ReadStatusRecv
    \/ ReadDiscreteInputsBegin
    \/ ReadDiscreteInputsSend
    \/ ReadDiscreteInputsRecv
    \/ ReadCoilsBegin
    \/ ReadCoilsSend
    \/ ReadCoilsRecv
    \/ ReadHoldingRegistersBegin
    \/ ReadHoldingRegistersSend
    \/ ReadHoldingRegistersRecv
    \/ RefreshReturn
    \/ PollFinish

SpecRefresh == Init /\ [][NextRefresh]_vars

(***************************************************************************)
(* SpecInventory: coil registrations, polls and writes of the inventory,   *)
(* one call after another: each starts when no poll is in flight and no    *)
(* write job runs.                                                         *)
(***************************************************************************)
SerialServiceCall(selected_inputs, excluded) ==
    Quiet /\ ServiceCall(selected_inputs, excluded) /\ UNCHANGED arguments

SerialWriteCoilsCall(start, values) ==
    Quiet /\ WriteCoilsCall(start, values)

NextInventory ==
    \/ \E addresses \in SUBSET CoilAddresses : SerialAddCoils(addresses)
    \/ SerialPollStart
    \/ RefreshBegin
    \/ ReadStatusBegin
    \/ ReadStatusSend
    \/ ReadStatusRecv
    \/ ReadDiscreteInputsBegin
    \/ ReadCoilsBegin
    \/ ReadCoilsSend
    \/ ReadCoilsRecv
    \/ ReadHoldingRegistersBegin
    \/ RefreshReturn
    \/ PollFinish
    \/ \E selected_inputs \in SUBSET InputIndexes, excluded \in BOOLEAN :
         SerialServiceCall(selected_inputs, excluded)
    \/ WriteCoilSend
    \/ WriteCoilRecv
    \/ \E start \in CoilAddresses : \E values \in Payloads(start) :
         SerialWriteCoilsCall(start, values)
    \/ WriteCoilsSend
    \/ WriteCoilsRecv
    \/ WriteFinish

SpecInventory == Init /\ [][NextInventory]_vars

(***************************************************************************)
(* SpecRegistration: the registrations of every address class with their   *)
(* return values on record, and the writes of the service, one call after  *)
(* another.                                                                *)
(***************************************************************************)
\* The record of a registration call; `turn` tells one call from the next.
Registration(op, addresses, before, after) ==
    [op |-> op, addresses |-> addresses, returned |-> AddReturn(before, after),
     turn |-> 1 - call.turn]

RegisterDiscreteInputs(addresses) ==
    /\ Quiet
    /\ AddDiscreteInputs(addresses)
    /\ call' = Registration("add_discrete_inputs", addresses,
                            discrete_inputs, discrete_inputs')

RegisterCoils(addresses) ==
    /\ Quiet
    /\ AddCoils(addresses)
    /\ call' = Registration("add_coils", addresses, coils, coils')

RegisterHoldingRegisters(addresses) ==
    /\ Quiet
    /\ AddHoldingRegisters(addresses)
    /\ call' = Registration("add_holding_registers", addresses,
                            holding_registers, holding_registers')

NextRegistration ==
    \/ \E addresses \in SUBSET InputAddresses : RegisterDiscreteInputs(addresses)
    \/ \E addresses \in SUBSET CoilAddresses : RegisterCoils(addresses)
    \/ \E addresses \in SUBSET RegisterAddresses : RegisterHoldingRegisters(addresses)
    \/ \E selected_inputs \in SUBSET InputIndexes, excluded \in BOOLEAN :
         SerialServiceCall(selected_inputs, excluded)
    \/ WriteCoilSend
    \/ WriteCoilRecv
    \/ WriteFinish

SpecRegistration == Init /\ [][NextRegistration]_vars

(***************************************************************************)
(* SpecThreads: the poll and the service's write job on their two executor *)
(* threads, in every interleaving of their steps, for an installation that *)
(* registers coils only.                                                   *)
(***************************************************************************)
NextThreads ==
    \/ \E addresses \in SUBSET CoilAddresses : AddCoils(addresses) /\ UNCHANGED call
    \/ PollStart
    \/ RefreshBegin
    \/ ReadStatusBegin
    \/ ReadStatusSend
    \/ ReadStatusRecv
    \/ ReadDiscreteInputsBegin
    \/ ReadCoilsBegin
    \/ ReadCoilsSend
    \/ ReadCoilsRecv
    \/ ReadHoldingRegistersBegin
    \/ RefreshReturn
    \/ PollFinish
    \/ \E selected_inputs \in SUBSET InputIndexes, excluded \in BOOLEAN :
         ServiceCall(selected_inputs, excluded) /\ UNCHANGED arguments
    \/ WriteCoilSend
    \/ WriteCoilRecv
    \/ WriteFinish

SpecThreads == Init /\ [][NextThreads]_vars

(***************************************************************************)
(* SpecPoller: the polling loop of an installation that reads the status   *)
(* only, tick after tick, with a device that fails at will until it        *)
(* recovers for good.                                                      *)
(***************************************************************************)
\* The update interval has elapsed: a poll starts when none is in flight.
\* Ticks are not counted.
TimerTick ==
    /\ poller = "Idle"
    /\ poller' = "Polling"
    /\ refresh_requested' = FALSE
    /\ refresh_job' = [IdleRefresh EXCEPT !.pc = "start"]
    /\ UNCHANGED <<inventory_vars, device_coils, write_job, data,
                   last_update_success, polls, writes, written, device_armed,
                   command_job, panel, alarm_state, device_healthy, options, flow,
                   definitions, call, arguments, result, hass, user_codes>>

\* From now on the device answers every request correctly.
DeviceRecovers ==
    /\ ~device_healthy
    /\ device_healthy' = TRUE
    /\ UNCHANGED <<inventory_vars, device_coils, refresh_job, write_job, poller,
                   refresh_requested, data, last_update_success, polls, writes,
                   written, device_armed, command_job, panel, alarm_state, options,
                   flow, definitions, call, arguments, result, hass, user_codes>>

\* An entity that has nothing but the coordinator's outcome to go by.
AvailableAlways == TRUE

\* ElmoModbusAlarmControlPanel.available: super().available and
\* coordinator.last_update_success, both the outcome of the last poll.
Available == last_update_success

\* The steps of a poll.
PollStep ==
    \/ RefreshBegin
    \/ ReadStatusBegin
    \/ ReadStatusSend
    \/ ReadStatusRecv
    \/ ReadDiscreteInputsBegin
    \/ ReadCoilsBegin
    \/ ReadHoldingRegistersBegin
    \/ RefreshReturn
    \/ PollFinish

NextPoller ==
    \/ TimerTick
    \/ DeviceRecovers
    \/ RefreshBegin
    \/ ReadStatusBegin
    \/ ReadStatusSend
    \/ ReadStatusRecv
    \/ ReadDiscreteInputsBegin
    \/ ReadCoilsBegin
    \/ ReadHoldingRegistersBegin
    \/ RefreshReturn
    \/ PollFinish

SpecPoller == Init /\ [][NextPoller]_vars

\* The timer keeps ticking and a poll that has started runs to its end: every
\* request is answered or times out.
FairSpecPoller ==
    /\ SpecPoller
    /\ WF_vars(TimerTick)
    /\ WF_vars(PollStep)

(***************************************************************************)
(* SpecSnapshots: poll after poll (uncounted), with coil registrations and *)
(* writes between them, one call after another.                            *)
(***************************************************************************)
SerialTimerTick == Quiet /\ TimerTick

NextSnapshots ==
    \/ \E addresses \in SUBSET CoilAddresses : SerialAddCoils(addresses)
    \/ SerialTimerTick
    \/ RefreshBegin
    \/ ReadStatusBegin
    \/ ReadStatusSend
    \/ ReadStatusRecv
    \/ ReadDiscreteInputsBegin
    \/ ReadCoilsBegin
    \/ ReadCoilsSend
    \/ ReadCoilsRecv
    \/ ReadHoldingRegistersBegin
    \/ RefreshReturn
    \/ PollFinish
    \/ \E selected_inputs \in SUBSET InputIndexes, excluded \in BOOLEAN :
         SerialServiceCall(selected_inputs, excluded)
    \/ WriteCoilSend
    \/ WriteCoilRecv
    \/ \E start \in CoilAddresses : \E values \in Payloads(start) :
         SerialWriteCoilsCall(start, values)
    \/ WriteCoilsSend
    \/ WriteCoilsRecv
    \/ WriteFinish

SpecSnapshots == Init /\ [][NextSnapshots]_vars

(***************************************************************************)
(* The alarm control panel (custom_components/elmo-modbus): its            *)
(* coordinator polls the armed bit of every sector, and the panel entity   *)
(* arms and disarms sectors through the command coils.                     *)
(***************************************************************************)
REGISTER_STATUS_COUNT == 64
REGISTER_COMMAND_START == 12289
REGISTER_COMMAND_COUNT == 64

\* The sectors a panel is configured with.
PanelSectors == 1..MaxPanelSectors

\* The sector counts a coordinator may be constructed with.
SectorCountInputs ==
    {0, MaxPanelSectors, REGISTER_STATUS_COUNT, REGISTER_STATUS_COUNT + 1}

\* ElmoModbusCoordinator.__init__: max(1, min(sector_count, REGISTER_STATUS_COUNT))
ClampStatusCount(n) ==
    LET low == IF n < REGISTER_STATUS_COUNT THEN n ELSE REGISTER_STATUS_COUNT
    IN IF low < 1 THEN 1 ELSE low

\* The armed bits the device answers to read_discrete_inputs(start, count).
StatusResponse(count) ==
    Pad([i \in 1..count |-> i \in device_armed], count)

\* The entry is set up after the coordinator's first refresh has produced
\* data: the panel entity exists from then on.
PanelAdded == data # None

\* The variables a command leaves alone, but for the history of the call.
entity_state ==
    <<status_required, discrete_inputs, coils, holding_registers, cached_status,
      cached_inputs, cached_coils, cached_registers, device_coils, refresh_job,
      write_job, poller, polls, writes, written, panel, alarm_state,
      device_healthy, options, flow, definitions, call, hass, user_codes>>

\* All the variables the alarm panel leaves alone.
inventory_state ==
    <<status_required, discrete_inputs, coils, holding_registers, cached_status,
      cached_inputs, cached_coils, cached_registers, device_coils, refresh_job,
      write_job, poller, polls, writes, written, panel, alarm_state,
      device_healthy, options, flow,
                   definitions, call, arguments, result, hass, user_codes>>

InitPanel ==
    /\ sector_count \in {ClampStatusCount(n) : n \in SectorCountInputs}
    /\ device_armed \in SUBSET PanelSectors
    /\ command_job = IdleCommand
    /\ data = None
    /\ last_update_success = TRUE
    /\ refresh_requested = FALSE
    /\ status_required = TRUE
    /\ discrete_inputs = {}
    /\ coils = {}
    /\ holding_registers = {}
    /\ cached_status = None
    /\ cached_inputs = EmptyMap
    /\ cached_coils = EmptyMap
    /\ cached_registers = EmptyMap
    /\ device_coils = [a \in CoilAddresses |-> FALSE]
    /\ refresh_job = IdleRefresh
    /\ write_job = IdleWrite
    /\ poller = "Idle"
    /\ polls = 0
    /\ writes = 0
    /\ written = {}
    /\ panel = NoPanel
    /\ alarm_state = "unknown"
    /\ device_healthy = FALSE
    /\ options = NoOptions
    /\ flow = NoFlow
    /\ definitions = << >>
    /\ call = NoCall
    /\ arguments = << >>
    /\ result = NoResult
    /\ hass = NoHass
    /\ user_codes = << >>

\* ElmoModbusCoordinator._async_update_data: one read of the armed bits,
\* trimmed to the sector count; a failure (UpdateFailed) keeps the data.  The
\* data is None or the list of bits, held in the field `bits`.
AsyncUpdateData ==
    /\ \E outcome \in PossibleOutcomes :
         /\ data' = IF outcome = "ok"
                    THEN [bits |-> Trim(StatusResponse(sector_count), sector_count)]
                    ELSE data
         /\ last_update_success' = (outcome = "ok")
    /\ refresh_requested' = FALSE
    /\ UNCHANGED <<sector_count, device_armed, command_job, inventory_state>>

\* _build_command_payload: the first REGISTER_COMMAND_COUNT bits of the data
\* when there are as many, else all False; then the target sectors are set.
BuildCommandPayload(current, target_sectors, value) ==
    LET carried == IF current = None THEN FALSE
                   ELSE /\ Len(current.bits) # 0
                        /\ Len(current.bits) >= REGISTER_COMMAND_COUNT
    IN [i \in 1..REGISTER_COMMAND_COUNT |->
          IF i \in target_sectors THEN value
          ELSE IF carried THEN current.bits[i] ELSE FALSE]

\* _async_send_command, line 173: the payload is built from coordinator.data
\* and handed to the executor job.
AsyncSendCommand(target_sectors, value) ==
    /\ PanelAdded
    /\ command_job.pc = "idle"
    /\ command_job' = [pc |-> "write",
                       target_sectors |-> target_sectors,
                       value |-> value,
                       payload |-> BuildCommandPayload(data, target_sectors, value)]
    /\ UNCHANGED <<sector_count, device_armed, data, last_update_success,
                   refresh_requested, entity_state>>

\* The set of all sector numbers (_all_sectors).
AllSectors == 1..REGISTER_STATUS_COUNT

\* async_alarm_disarm of a panel that manages `managed_sectors` and has no
\* user code.
AsyncAlarmDisarm(managed_sectors) ==
    /\ AsyncSendCommand(IF managed_sectors # {} THEN managed_sectors ELSE AllSectors,
                        FALSE)
    /\ UNCHANGED <<arguments, result>>

\* async_alarm_arm_away, _home, _night of a panel whose mode has `sectors`
\* and that has no user code: _target_sectors raises when the mode has none.
AsyncAlarmArm(sectors) ==
    /\ sectors # {}
    /\ AsyncSendCommand(sectors, TRUE)
    /\ UNCHANGED <<arguments, result>>

\* _write, lines 175-182: the payload is written to the command coils; the
\* device arms and disarms its sectors as a write it answers says.
CommandWrite ==
    /\ command_job.pc = "write"
    /\ \E outcome \in PossibleOutcomes :
         /\ command_job' = [command_job EXCEPT !.pc = IF outcome = "ok"
                                                      THEN "done" ELSE "raised"]
         /\ device_armed' =
              IF outcome = "ok"
              THEN {s \in 1..REGISTER_COMMAND_COUNT : command_job.payload[s]}
              ELSE device_armed
    /\ UNCHANGED <<sector_count, data, last_update_success, refresh_requested,
                   inventory_state>>

\* _async_send_command, lines 184-190: a failure is raised to the caller, a
\* success requests a refresh.
CommandFinish ==
    /\ command_job.pc \in {"done", "raised"}
    /\ refresh_requested' = (refresh_requested \/ command_job.pc = "done")
    /\ command_job' = IdleCommand
    /\ UNCHANGED <<sector_count, device_armed, data, last_update_success,
                   inventory_state>>

NextPanel ==
    \/ AsyncUpdateData
    \/ \E managed_sectors \in SUBSET PanelSectors : AsyncAlarmDisarm(managed_sectors)
    \/ \E sectors \in SUBSET PanelSectors : AsyncAlarmArm(sectors)
    \/ CommandWrite
    \/ CommandFinish

SpecPanel == InitPanel /\ [][NextPanel]_vars

(***************************************************************************)
(* The state of the alarm panel entity: alarm_state derives it from the    *)
(* armed bits the coordinator published and the panel's definition.        *)
(***************************************************************************)
\* panels.MODES: the modes in the order the entity goes through them.
MODES == <<"away", "home", "night">>

\* MODE_TO_STATE
MODE_TO_STATE ==
    [away |-> "armed_away", home |-> "armed_home", night |-> "armed_night"]

\* A priority table that puts home above night.
STATE_PRIORITY_HomeOverNight ==
    [armed_away |-> 3, armed_night |-> 1, armed_home |-> 2]

\* STATE_PRIORITY
STATE_PRIORITY ==
    [armed_away |-> 3, armed_night |-> 2, armed_home |-> 1]

\* PanelDefinition.mode_sectors
ModeSectors(p, mode) == p.modes[mode]

\* Managed sectors that leave out the extra disarm sectors.
ManagedSectorsOfModes(p) ==
    UNION {ModeSectors(p, MODES[i]) : i \in 1..Len(MODES)}

\* Managed sectors that count the away mode only.
ManagedSectorsOfAway(p) == ModeSectors(p, "away") \cup p.extra_disarm_sectors

\* PanelDefinition.managed_sectors: the sectors of every mode and the extra
\* disarm sectors.
ManagedSectors(p) ==
    UNION {ModeSectors(p, MODES[i]) : i \in 1..Len(MODES)} \cup p.extra_disarm_sectors

\* ElmoModbusAlarmControlPanel.__init__, lines 106-110: _mode_sectors keeps the
\* modes that have sectors, in the order of MODES.
ConfiguredModes(p) == SelectSeq(MODES, LAMBDA mode : ModeSectors(p, mode) # {})

\* The sectors armed in the bits (1-based).
ArmedSectors(bits) == {i \in 1..Len(bits) : bits[i]}

\* A panel that looks at every armed sector, managed or not.
PanelArmedSectorsUnrestricted(bits, p) == ArmedSectors(bits)

\* A panel that looks at every armed sector up to the last one it manages.
PanelArmedSectorsUpToLast(bits, p) ==
    IF ManagedSectors(p) # {}
    THEN {i \in ArmedSectors(bits) : \E s \in ManagedSectors(p) : i <= s}
    ELSE ArmedSectors(bits)

\* The armed sectors the panel looks at.
PanelArmedSectors(bits, p) ==
    IF ManagedSectors(p) # {}
    THEN ArmedSectors(bits) \cap ManagedSectors(p)
    ELSE ArmedSectors(bits)

\* A total that counts the bits whatever the panel manages.
PanelTotalBits(bits, p) == Len(bits)

\* panel_total
PanelTotal(bits, p) ==
    IF ManagedSectors(p) # {} THEN Cardinality(ManagedSectors(p)) ELSE Len(bits)

\* An order that resolves equal overlaps in favour of the lowest priority.
AboveLowestPriority(p, armed, mode, other) ==
    LET overlap(m) == Cardinality(armed \cap ModeSectors(p, m))
        priority(m) == STATE_PRIORITY[MODE_TO_STATE[m]]
    IN \/ overlap(mode) > overlap(other)
       \/ overlap(mode) = overlap(other) /\ priority(mode) <= priority(other)

\* matches.sort(reverse=True): (overlap, priority) of one mode is above that
\* of another.
Above(p, armed, mode, other) ==
    LET overlap(m) == Cardinality(armed \cap ModeSectors(p, m))
        priority(m) == STATE_PRIORITY[MODE_TO_STATE[m]]
    IN \/ overlap(mode) > overlap(other)
       \/ overlap(mode) = overlap(other) /\ priority(mode) >= priority(other)

\* A derivation without the exact match.
NoExactMatches(armed, p) == << >>

\* alarm_state, lines 268-271: the configured modes whose sectors are exactly
\* the armed ones, in the order of the loop.
ExactMatches(armed, p) ==
    SelectSeq(ConfiguredModes(p), LAMBDA mode : armed = ModeSectors(p, mode))

\* The fallback of a build without ARMED_CUSTOM_BYPASS (AttributeError).
FallbackAway == "armed_away"

\* alarm_state, lines 288-292: armed, but no known profile.
Fallback == "armed_custom_bypass"

\* alarm_state, lines 237-292.
AlarmState(current, p) ==
    IF current = None THEN "unknown"
    ELSE
    LET bits == current.bits
        armed == PanelArmedSectors(bits, p)
        configured == ConfiguredModes(p)
        exact == ExactMatches(armed, p)
        matches == {configured[i] : i \in 1..Len(configured)}
                   \cap {mode \in DOMAIN MODE_TO_STATE : armed \cap ModeSectors(p, mode) # {}}
    IN IF Cardinality(armed) = 0 THEN "disarmed"
       ELSE IF exact # << >> THEN MODE_TO_STATE[Head(exact)]
       ELSE IF Cardinality(armed) = PanelTotal(bits, p) THEN "armed_away"
       ELSE IF matches # {}
       THEN MODE_TO_STATE[CHOOSE mode \in matches :
                            \A other \in matches : Above(p, armed, mode, other)]
       ELSE Fallback

\* The sectors that may be armed on the device of a derivation: the panel's
\* sectors, the one after them, and sector 9.
StatusSectors == (1..(MaxPanelSectors + 1)) \cup {9}

\* The panel definitions of a derivation.
Panels ==
    [modes : [away : SUBSET PanelSectors, home : SUBSET PanelSectors,
              night : SUBSET PanelSectors],
     extra_disarm_sectors : {{}, {MaxPanelSectors + 1}, {9}}]

InitAlarmState ==
    /\ sector_count \in {ClampStatusCount(n) : n \in {MaxPanelSectors + 1, MaxStatusSectors}}
    /\ device_armed \in SUBSET (StatusSectors \cap (1..sector_count))
    /\ panel \in Panels
    /\ alarm_state = "unknown"
    /\ command_job = IdleCommand
    /\ data = None
    /\ last_update_success = TRUE
    /\ refresh_requested = FALSE
    /\ status_required = TRUE
    /\ discrete_inputs = {}
    /\ coils = {}
    /\ holding_registers = {}
    /\ cached_status = None
    /\ cached_inputs = EmptyMap
    /\ cached_coils = EmptyMap
    /\ cached_registers = EmptyMap
    /\ device_coils = [a \in CoilAddresses |-> FALSE]
    /\ refresh_job = IdleRefresh
    /\ write_job = IdleWrite
    /\ poller = "Idle"
    /\ polls = 0
    /\ writes = 0
    /\ written = {}
    /\ device_healthy = FALSE
    /\ options = NoOptions
    /\ flow = NoFlow
    /\ definitions = << >>
    /\ call = NoCall
    /\ arguments = << >>
    /\ result = NoResult
    /\ hass = NoHass
    /\ user_codes = << >>

\* The coordinator has updated and the entity writes its state: alarm_state is
\* read.
WriteAlarmState ==
    /\ alarm_state' = AlarmState(data, panel)
    /\ UNCHANGED <<sector_count, status_required, discrete_inputs, coils,
                   holding_registers, cached_status, cached_inputs, cached_coils,
                   cached_registers, device_coils, refresh_job, write_job, poller,
                   refresh_requested, data, last_update_success, polls, writes,
                   written, device_armed, command_job, panel, device_healthy, options, flow,
                   definitions, call, arguments, result, hass, user_codes>>

NextAlarmState ==
    \/ AsyncUpdateData
    \/ WriteAlarmState

SpecAlarmState == InitAlarmState /\ [][NextAlarmState]_vars

(***************************************************************************)
(* The panel configuration (panels.py): the options of a config entry hold *)
(* either the named panels or the legacy sector lists, and                 *)
(* load_panel_definitions turns them into PanelDefinitions.  Texts are     *)
(* sequences of words: "Panel 2" is <<"Panel", "2">>, the slug "panel_2"   *)
(* is <<"panel", "2">> and the empty text is << >>.                        *)
(***************************************************************************)
MaxPanels == 3

\* A value found in a stored sector list: int(value) succeeds or raises.
RawInt(n) == [int |-> TRUE, value |-> n]

RawJunk == [int |-> FALSE, value |-> 0]

RawSectors(sectors) == {RawInt(n) : n \in sectors}

\* The words of the texts of the model, and their lower-case form.
LowerCase(word) ==
    CASE word = "A" -> "a"
      [] word = "Panel" -> "panel"
      [] word = "Alarm" -> "alarm"
      [] OTHER -> word

\* homeassistant.util.slugify: lower case, words joined by "_".
Slugify(text) == [i \in 1..Len(text) |-> LowerCase(text[i])]

\* _sanitize_sectors
SanitizeSectors(values, max_sector) ==
    {v.value : v \in {w \in values : w.int /\ 1 <= w.value /\ w.value <= max_sector}}

\* f"{base}_{index}"
Suffixed(base, index) == Append(base, ToString(index))

\* A slug that is returned as it came, used or not.
EnsureUniqueSlugUnchecked(candidate, used) ==
    IF candidate # << >> THEN candidate ELSE <<"panel">>

\* _ensure_unique_slug: the slug it returns (the caller's `used` gains it).
EnsureUniqueSlug(candidate, used) ==
    LET base == IF candidate # << >> THEN candidate ELSE <<"panel">>
        RECURSIVE Loop(_, _)
        Loop(slug, index) ==
            IF slug \in used THEN Loop(Suffixed(base, index), index + 1) ELSE slug
    IN  Loop(base, 2)

\* The name and the slug shared by from_storage and panels_to_options.
PanelName(raw, index) ==
    IF raw.name # << >> THEN raw.name ELSE <<"Panel", ToString(index)>>

PanelSlug(raw, index, used_slugs) ==
    LET slug_value == raw.entity_id_suffix
        slug_candidate ==
            IF slug_value # << >> THEN Slugify(slug_value)
            ELSE Slugify(PanelName(raw, index))
    IN  EnsureUniqueSlug(IF slug_candidate # << >> THEN slug_candidate
                         ELSE <<"panel", ToString(index)>>, used_slugs)

\* PanelDefinition.from_storage
FromStorage(raw, used_slugs, default_index, max_sector) ==
    [name |-> PanelName(raw, default_index),
     slug |-> PanelSlug(raw, default_index, used_slugs),
     modes |-> [away |-> SanitizeSectors(raw.modes.away, max_sector),
                home |-> SanitizeSectors(raw.modes.home, max_sector),
                night |-> SanitizeSectors(raw.modes.night, max_sector)],
     extra_disarm_sectors |-> {}]

\* from_legacy, lines 153-156: the disarm sectors the away mode does not hold.
LegacyExtra(disarm_sectors, away) ==
    IF disarm_sectors # {} THEN disarm_sectors \ away ELSE {}

\* PanelDefinition.from_legacy
FromLegacy(legacy, used_slugs, max_sector) ==
    LET away == SanitizeSectors(legacy.away, max_sector)
        home == SanitizeSectors(legacy.home, max_sector)
        night == SanitizeSectors(legacy.night, max_sector)
        disarm_sectors == SanitizeSectors(legacy.disarm, max_sector)
        none == away = {} /\ home = {} /\ night = {}
        modes == [away |-> IF none THEN 1..max_sector ELSE away,
                  home |-> home, night |-> night]
    IN  [name |-> <<"Alarm", "Panel">>,
         slug |-> EnsureUniqueSlug(Slugify(<<"Alarm", "Panel">>), used_slugs),
         modes |-> modes,
         extra_disarm_sectors |-> LegacyExtra(disarm_sectors, modes.away)]

Slugs(panels) == {panels[i].slug : i \in 1..Len(panels)}

RECURSIVE StorageWalk(_, _, _)
StorageWalk(raw_panels, panels, max_sector) ==
    IF Len(panels) = Len(raw_panels) THEN panels
    ELSE LET index == Len(panels) + 1
         IN  StorageWalk(raw_panels,
                         Append(panels, FromStorage(raw_panels[index], Slugs(panels),
                                                    index, max_sector)),
                         max_sector)

\* load_panel_definitions
LoadPanelDefinitions(opts, max_sector) ==
    IF opts.has_panels
    THEN StorageWalk(opts.panels, << >>, max_sector)
    ELSE <<FromLegacy(opts.legacy, {}, max_sector)>>

\* A storage form that derives the suffix from the name again.
ToStorageSlugOfName(p) ==
    [name |-> p.name, entity_id_suffix |-> Slugify(p.name),
     modes |-> [away |-> {RawInt(n) : n \in p.modes.away},
                home |-> {RawInt(n) : n \in p.modes.home},
                night |-> {RawInt(n) : n \in p.modes.night}]]

\* PanelDefinition.to_storage
ToStorage(p) ==
    [name |-> p.name, entity_id_suffix |-> p.slug,
     modes |-> [away |-> RawSectors(p.modes.away), home |-> RawSectors(p.modes.home),
                night |-> RawSectors(p.modes.night)]]

\* panels_to_options: the panels as from_storage normalises them, stored.
PanelsToOptions(raw_panels, max_sector) ==
    LET panels == StorageWalk(raw_panels, << >>, max_sector)
    IN  [has_panels |-> TRUE,
         panels |-> [i \in 1..Len(panels) |-> ToStorage(panels[i])],
         legacy |-> NoOptions.legacy]

(***************************************************************************)
(* The options flow (config_flow.py) edits the panels of the entry and     *)
(* saves them with panels_to_options; the alarm panel platform loads them  *)
(* when the entry is set up.                                               *)
(***************************************************************************)
\* Everything but the options, the flow and the loaded definitions.
entry_state ==
    <<sector_count, status_required, discrete_inputs, coils, holding_registers,
      cached_status, cached_inputs, cached_coils, cached_registers, device_coils,
      refresh_job, write_job, poller, refresh_requested, data,
      last_update_success, polls, writes, written, device_armed, command_job,
      panel, alarm_state, device_healthy, call, arguments, result, hass, user_codes>>

NoModes == [away |-> {}, home |-> {}, night |-> {}]

\* The sector lists a legacy entry may hold.
LegacyLists ==
    {{}, RawSectors({1, 2}), RawSectors({MaxPanelSectors + 1}),
     {RawInt(0), RawInt(1), RawInt(DEFAULT_SECTORS + 1), RawJunk}}

\* The panels an entry may hold.
StoredPanels ==
    [name : {<<"A">>},
     entity_id_suffix : {<< >>, <<"a">>, <<"a", "2">>},
     modes : {[away |-> RawSectors({1}), home |-> {}, night |-> {}],
              [away |-> {RawInt(1), RawInt(MaxPanelSectors + 1), RawJunk},
               home |-> RawSectors({2}), night |-> {}]}]

\* The options an entry may hold when the integration is loaded.
InitialOptions ==
    {[has_panels |-> FALSE, panels |-> << >>, legacy |-> legacy] :
        legacy \in [away : LegacyLists, home : {{}, RawSectors({2})},
                    night : {{}}, disarm : {{}, RawSectors({1, MaxPanelSectors + 1})}]}
    \cup
    {[has_panels |-> TRUE, panels |-> panels, legacy |-> NoOptions.legacy] :
        panels \in UNION {[1..n -> StoredPanels] : n \in 0..MaxPanels}}

InitOptions ==
    /\ options \in InitialOptions
    /\ flow = NoFlow
    /\ definitions = << >>
    /\ call = NoCall
    /\ arguments = << >>
    /\ result = NoResult
    /\ hass = NoHass
    /\ user_codes = << >>
    /\ sector_count = ClampStatusCount(MaxPanelSectors)
    /\ device_armed = {}
    /\ command_job = IdleCommand
    /\ data = None
    /\ last_update_success = TRUE
    /\ refresh_requested = FALSE
    /\ status_required = TRUE
    /\ discrete_inputs = {}
    /\ coils = {}
    /\ holding_registers = {}
    /\ cached_status = None
    /\ cached_inputs = EmptyMap
    /\ cached_coils = EmptyMap
    /\ cached_registers = EmptyMap
    /\ device_coils = [address \in CoilAddresses |-> FALSE]
    /\ refresh_job = IdleRefresh
    /\ write_job = IdleWrite
    /\ poller = "Idle"
    /\ polls = 0
    /\ writes = 0
    /\ written = {}
    /\ panel = NoPanel
    /\ alarm_state = "unknown"
    /\ device_healthy = FALSE

\* async_setup_entry of the alarm panel platform: one entity per panel of
\* load_panel_definitions(entry.options).
AsyncSetupEntry ==
    /\ definitions' = LoadPanelDefinitions(options, DEFAULT_SECTORS)
    /\ UNCHANGED <<entry_state, options, flow>>

\* ElmoModbusOptionsFlowHandler.__init__, lines 277-298: the user opens the
\* options; the handler keeps the panels as dicts.
FlowPanel(p) ==
    [name |-> p.name, entity_id_suffix |-> p.slug,
     modes |-> [away |-> RawSectors(ModeSectors(p, "away")),
                home |-> RawSectors(ModeSectors(p, "home")),
                night |-> RawSectors(ModeSectors(p, "night"))]]

OptionsFlowInit ==
    LET sector_limit == ClampStatusCount(sector_count)
        loaded == LoadPanelDefinitions(options, sector_limit)
    IN  /\ flow' = [open |-> TRUE,
                    panels |-> [i \in 1..Len(loaded) |-> FlowPanel(loaded[i])],
                    panel_index |-> 0,
                    sector_limit |-> sector_limit]
        /\ UNCHANGED <<entry_state, options, definitions>>

\* _update_config_entry_options
UpdateConfigEntryOptions(panels) ==
    options' = PanelsToOptions(panels, flow.sector_limit)

\* async_step_add_panel: a panel with default values, then the editor's form.
AsyncStepAddPanel ==
    /\ flow.open
    /\ Len(flow.panels) < MaxPanels
    /\ flow' = [flow EXCEPT
                  !.panels = Append(@, [name |-> <<"Panel", ToString(Len(flow.panels) + 1)>>,
                                        entity_id_suffix |-> << >>,
                                        modes |-> NoModes]),
                  !.panel_index = Len(flow.panels) + 1]
    /\ UNCHANGED <<entry_state, options, definitions>>

\* async_step_panels: the user picks the panel to edit.
AsyncStepPanels(selection) ==
    /\ flow.open
    /\ flow.panels # << >>
    /\ selection \in 1..Len(flow.panels)
    /\ flow' = [flow EXCEPT !.panel_index = selection]
    /\ UNCHANGED <<entry_state, options, definitions>>

\* _parse_sector_input: the sectors, or vol.Invalid.
ParseSectorInput(value, max_sector) ==
    [ok |-> \A w \in value : w.int /\ 1 <= w.value /\ w.value <= max_sector,
     sectors |-> {w.value : w \in {v \in value : v.int}}]

\* async_step_panel_edit, lines 989-1001: another panel has the slug.
DuplicateSlug(panels, index, slug_value) ==
    \E other_index \in (1..Len(panels)) \ {index} :
        LET other == panels[other_index]
            other_slug == Slugify(IF other.entity_id_suffix # << >>
                                  THEN other.entity_id_suffix ELSE other.name)
        IN  (IF other_slug # << >> THEN other_slug
             ELSE <<"panel", ToString(other_index)>>) = slug_value

\* What the user may submit in the editor.
EditInputs ==
    [remove : {FALSE}, name : {<< >>, <<"A">>},
     entity_id_suffix : {<< >>, <<"a">>, <<"a", "2">>},
     away : {{}, RawSectors({1}), RawSectors({MaxPanelSectors + 1})},
     home : {{}}, night : {{}}]
    \cup
    [remove : {TRUE}, name : {<< >>}, entity_id_suffix : {<< >>},
     away : {{}}, home : {{}}, night : {{}}]

Remove(panels, index) ==
    [i \in 1..(Len(panels) - 1) |-> IF i < index THEN panels[i] ELSE panels[i + 1]]

\* async_step_panel_edit with the user's input.
AsyncStepPanelEdit(user_input) ==
    /\ flow.open
    /\ IF flow.panel_index = 0 \/ flow.panel_index > Len(flow.panels)
       THEN /\ flow' = [flow EXCEPT !.panel_index = 0]
            /\ UNCHANGED options
       ELSE LET index == flow.panel_index
                current == flow.panels[index]
                name_input == user_input.name
                name_value == IF name_input # << >> THEN name_input ELSE current.name
                slug_input == user_input.entity_id_suffix
                slug_candidate == IF slug_input # << >> THEN Slugify(slug_input)
                                  ELSE Slugify(name_value)
                away == ParseSectorInput(user_input.away, flow.sector_limit)
                home == ParseSectorInput(user_input.home, flow.sector_limit)
                night == ParseSectorInput(user_input.night, flow.sector_limit)
                errors ==
                    \/ name_input = << >>
                    \/ slug_candidate = << >>
                    \/ ~away.ok \/ ~home.ok \/ ~night.ok
                    \/ DuplicateSlug(flow.panels, index, slug_candidate)
                edited == [name |-> name_value,
                           entity_id_suffix |-> slug_candidate,
                           modes |-> [away |-> RawSectors(away.sectors),
                                      home |-> RawSectors(home.sectors),
                                      night |-> RawSectors(night.sectors)]]
            IN  IF user_input.remove
                THEN /\ flow' = [flow EXCEPT !.panels = Remove(@, index),
                                             !.panel_index = 0]
                     /\ UpdateConfigEntryOptions(flow'.panels)
                ELSE IF errors
                THEN UNCHANGED <<flow, options>>
                ELSE /\ flow' = [flow EXCEPT !.panels[index] = edited,
                                             !.panel_index = 0]
                     /\ UpdateConfigEntryOptions(flow'.panels)
    /\ UNCHANGED <<entry_state, definitions>>

\* async_step_user_codes with valid codes: the options are saved as the
\* handler holds them.
AsyncStepUserCodes ==
    /\ flow.open
    /\ UpdateConfigEntryOptions(flow.panels)
    /\ UNCHANGED <<entry_state, flow, definitions>>

\* SpecSetup: the alarm panel platform is set up with the options the entry
\* holds.
NextSetup == AsyncSetupEntry

SpecSetup == InitOptions /\ [][NextSetup]_vars

\* SpecOptions: the user works through the options flow.
NextOptions ==
    \/ OptionsFlowInit
    \/ AsyncStepAddPanel
    \/ \E selection \in 1..MaxPanels : AsyncStepPanels(selection)
    \/ \E user_input \in EditInputs : AsyncStepPanelEdit(user_input)
    \/ AsyncStepUserCodes

SpecOptions == InitOptions /\ [][NextOptions]_vars

(***************************************************************************)
(* Helper functions, applied to arguments of every shape.                  *)
(***************************************************************************)
MaxSpan == 4
MaxCollection == 4

\* Everything but the arguments and the result of the helper function.
program_state ==
    <<sector_count, status_required, discrete_inputs, coils, holding_registers,
      cached_status, cached_inputs, cached_coils, cached_registers, device_coils,
      refresh_job, write_job, poller, refresh_requested, data,
      last_update_success, polls, writes, written, device_armed, command_job,
      panel, alarm_state, device_healthy, options, flow, definitions, call, hass, user_codes>>

\* The integration at rest: nothing registered, nothing polled.
AtRest ==
    /\ status_required = TRUE
    /\ discrete_inputs = {}
    /\ coils = {}
    /\ holding_registers = {}
    /\ cached_status = None
    /\ cached_inputs = EmptyMap
    /\ cached_coils = EmptyMap
    /\ cached_registers = EmptyMap
    /\ device_coils = [address \in CoilAddresses |-> FALSE]
    /\ refresh_job = IdleRefresh
    /\ write_job = IdleWrite
    /\ poller = "Idle"
    /\ refresh_requested = FALSE
    /\ data = None
    /\ last_update_success = TRUE
    /\ polls = 0
    /\ writes = 0
    /\ written = {}
    /\ device_armed = {}
    /\ command_job = IdleCommand
    /\ panel = NoPanel
    /\ alarm_state = "unknown"
    /\ device_healthy = FALSE
    /\ options = NoOptions
    /\ flow = NoFlow
    /\ definitions = << >>
    /\ call = NoCall

\* The collections of addresses handed to _prepare_address_groups: in any
\* order, with repetitions.
SpanAddresses == INPUT_SENSOR_START .. (INPUT_SENSOR_START + MaxSpan)

AddressCollections == UNION {[1..n -> SpanAddresses] : n \in 0..MaxCollection}

\* {int(address) for address in addresses}
AddressSet(addresses) == {addresses[i] : i \in 1..Len(addresses)}

InitGroups ==
    /\ AtRest
    /\ sector_count = ClampSectorCount(MaxSectors)
    /\ arguments \in AddressCollections
    /\ result = NoResult
    /\ hass = NoHass
    /\ user_codes = << >>

\* _prepare_address_groups(arguments)
PrepareAddressGroupsCall ==
    /\ ~result.done
    /\ result' = [done |-> TRUE,
                  ordered |-> Sorted(AddressSet(arguments)),
                  groups |-> PrepareAddressGroups(AddressSet(arguments))]
    /\ UNCHANGED <<program_state, arguments>>

NextGroups == PrepareAddressGroupsCall

SpecGroups == InitGroups /\ [][NextGroups]_vars

(***************************************************************************)
(* SpecStatus: a poll of the status, for inventories constructed with      *)
(* sector counts of every size.                                            *)
(***************************************************************************)
\* The sector counts an inventory may be constructed with.
ConfiguredSectorCounts == {0, MaxSectors, MaxStatusSectors, DEFAULT_SECTORS + 1}

InitStatus ==
    /\ AtRest
    /\ sector_count \in {ClampSectorCount(n) : n \in ConfiguredSectorCounts}
    /\ arguments = << >>
    /\ result = NoResult
    /\ hass = NoHass
    /\ user_codes = << >>

NextStatus ==
    \/ PollStart
    \/ RefreshBegin
    \/ ReadStatusBegin
    \/ ReadStatusSend
    \/ ReadStatusRecv
    \/ ReadDiscreteInputsBegin
    \/ ReadCoilsBegin
    \/ ReadHoldingRegistersBegin
    \/ RefreshReturn
    \/ PollFinish

SpecStatus == InitStatus /\ [][NextStatus]_vars

(***************************************************************************)
(* Properties of the polling loop                                          *)
(***************************************************************************)
\* C11: a poll that fails ends like any other: the published snapshot stays
\* as it was and entities are not available; a poll that succeeds publishes
\* its snapshot and entities are available again.
C11_FailedPollKeepsData ==
    [][ (poller = "Polling" /\ poller' = "Idle")
        => IF refresh_job.pc = "raised"
           THEN data' = data /\ ~Available'
           ELSE data' = refresh_job.snapshot /\ Available'
      ]_vars

\* A poll has failed after a snapshot was published: the snapshot is still
\* there and flagged.
C11_Witness ==
    /\ poller = "Idle"
    /\ data # None
    /\ ~last_update_success

\* C12: every poll ends with the poller Idle, a new poll is started again and
\* again, and once the device answers correctly for good a snapshot is
\* returned and published.
C12_PollingNeverStops ==
    /\ (poller = "Polling") ~> (poller = "Idle")
    /\ []<>(poller = "Polling")
    /\ device_healthy ~> (refresh_job.pc = "returned")
    /\ (refresh_job.pc = "returned")
         ~> (poller = "Idle" /\ last_update_success /\ data # None)

\* A refresh has returned its snapshot from the recovered device after a poll
\* that failed.
C12_Witness ==
    /\ device_healthy
    /\ refresh_job.pc = "returned"
    /\ ~last_update_success

(***************************************************************************)
(* Properties of the alarm panel's commands                                *)
(***************************************************************************)
\* C1: the payload of every arm or disarm command covers the whole command
\* span, and each sector outside the target set carries the bit of its last
\* known armed status; it is never forced to 0.
C1_PayloadCarriesOtherSectors ==
    [][ (command_job.pc = "idle" /\ command_job'.pc = "write")
        => /\ Len(command_job'.payload) = REGISTER_COMMAND_COUNT
           /\ \A s \in (1..Len(data.bits)) \ command_job'.target_sectors :
                command_job'.payload[s] = data.bits[s]
      ]_vars

(***************************************************************************)
(* Properties of the derived alarm state.  They speak of the state the     *)
(* entity reported, the bits it was derived from and the panel.            *)
(***************************************************************************)
Reported == alarm_state # "unknown"

Armed == {i \in 1..Len(data.bits) : data.bits[i]}

Scope ==
    panel.modes.away \cup panel.modes.home \cup panel.modes.night
      \cup panel.extra_disarm_sectors

\* The armed set restricted to the managed sectors, or all of it when the
\* panel manages none.
Seen == IF Scope = {} THEN Armed ELSE Armed \cap Scope

Configured == {mode \in {"away", "home", "night"} : panel.modes[mode] # {}}

ExactModes == {mode \in Configured : Seen = panel.modes[mode]}

\* Every sector of the managed scope (of the bitmap, without a scope) is armed.
Covered == IF Scope = {} THEN Seen = 1..Len(data.bits) ELSE Seen = Scope

Overlap(mode) == Cardinality(Seen \cap panel.modes[mode])

Rank == [away |-> 3, night |-> 2, home |-> 1]

StateOf == [away |-> "armed_away", home |-> "armed_home", night |-> "armed_night"]

\* The modes no other mode beats: largest overlap, then highest priority.
Best(candidates) ==
    CHOOSE mode \in candidates :
      \A other \in candidates :
        \/ Overlap(mode) > Overlap(other)
        \/ Overlap(mode) = Overlap(other) /\ Rank[mode] >= Rank[other]

\* C13: alarm_state is Disarmed exactly when no sector managed by the panel is
\* armed (no sector of the bitmap, for a panel that manages none).
C13_DisarmedIffNoManagedArmed ==
    Reported => (alarm_state = "disarmed" <=> Seen = {})

\* Disarmed has been reported while a sector the panel does not manage is armed.
C13_Witness ==
    Reported /\ alarm_state = "disarmed" /\ Armed # {}

\* C14: a non-empty restricted armed set that equals the sectors of exactly
\* one configured mode gives that mode's state, whatever the overlaps and the
\* coverage of the scope.
C14_ExactMatchWins ==
    (Reported /\ Seen # {} /\ Cardinality(ExactModes) = 1)
    => \A mode \in ExactModes : alarm_state = StateOf[mode]

\* ArmedNight has been reported for an exact match of night that covers the
\* whole scope while away overlaps as well.
C14_Witness ==
    /\ Reported
    /\ ExactModes = {"night"}
    /\ Covered
    /\ "away" \in Configured
    /\ alarm_state = "armed_night"

\* C15: when several configured modes have the same sectors and the restricted
\* armed set equals them, the state is that of the mode with the highest
\* priority away > night > home.
C15_IdenticalModesByPriority ==
    (Reported /\ Seen # {} /\ Cardinality(ExactModes) >= 2)
    => alarm_state = StateOf[Best(ExactModes)]

\* C16: a restricted armed set that matches no mode exactly but covers the
\* whole scope gives ArmedAway, with or without an away mode.
C16_FullCoverageIsAway ==
    (Reported /\ Seen # {} /\ ExactModes = {} /\ Covered)
    => alarm_state = "armed_away"

\* ArmedAway has been reported for a fully armed scope of a panel that has
\* modes but no away mode.
C16_Witness ==
    /\ Reported
    /\ Seen # {}
    /\ ExactModes = {}
    /\ Covered
    /\ Configured # {}
    /\ "away" \notin Configured
    /\ alarm_state = "armed_away"

\* C17: without an exact match and without full coverage, the state is that of
\* the intersecting mode with the largest intersection, equal intersections
\* resolved by the priority away > night > home.
C17_LargestOverlapThenPriority ==
    LET intersecting == {mode \in Configured : Overlap(mode) > 0}
    IN (Reported /\ Seen # {} /\ ExactModes = {} /\ ~Covered /\ intersecting # {})
       => alarm_state = StateOf[Best(intersecting)]

\* ArmedNight has been reported where night and home intersect the armed set
\* equally and away less.
C17_Witness ==
    /\ Reported
    /\ ExactModes = {}
    /\ ~Covered
    /\ Overlap("night") > 0
    /\ Overlap("home") = Overlap("night")
    /\ Overlap("away") < Overlap("night")
    /\ alarm_state = "armed_night"

\* C18: ArmedCustom is reported exactly when a managed sector is armed, no
\* mode matches exactly, the scope is not fully armed and no configured mode
\* contains an armed managed sector.
C18_CustomIffUnrecognised ==
    Reported =>
      (alarm_state = "armed_custom_bypass"
       <=> /\ Seen # {}
           /\ ExactModes = {}
           /\ ~Covered
           /\ \A mode \in Configured : Overlap(mode) = 0)

\* ArmedCustom has been reported for a panel with modes: only an extra disarm
\* sector is armed.
C18_Witness ==
    /\ Reported
    /\ alarm_state = "armed_custom_bypass"
    /\ Configured # {}
    /\ Seen # {}

\* The case of C19: away = {1,2,3}, home = {2,3}, no night mode, and the
\* sectors 2, 3 and 4 armed.
C19_Case ==
    /\ Reported
    /\ panel.modes.away = {1, 2, 3}
    /\ panel.modes.home = {2, 3}
    /\ panel.modes.night = {}
    /\ Armed = {2, 3, 4}

\* C19 as stated: the case derives ArmedAway.
C19_TieGivesAway == C19_Case => alarm_state = "armed_away"

\* C19: the case derives ArmedAway when the panel manages sector 4, by the tie
\* of the overlaps; otherwise the restricted armed set {2,3} is exactly home's
\* and the state is ArmedHome.
C19_ExactHomeUnlessFourManaged ==
    C19_Case => alarm_state = IF 4 \in Scope THEN "armed_away" ELSE "armed_home"

\* The case has been derived as ArmedHome.
C19_Witness == C19_Case /\ alarm_state = "armed_home"

\* The case of C20: no mode contains sector 9 and exactly sector 9 is armed.
C20_Case ==
    /\ Reported
    /\ \A mode \in {"away", "home", "night"} : 9 \notin panel.modes[mode]
    /\ Armed = {9}

\* C20 as stated: the case derives ArmedCustom.
C20_UnknownSectorIsCustom == C20_Case => alarm_state = "armed_custom_bypass"

\* C20: the case derives Disarmed when the panel manages sectors and 9 is not
\* one of them, ArmedAway when 9 is the only managed sector, and ArmedCustom
\* otherwise.
C20_UnknownSectorByScope ==
    C20_Case =>
      alarm_state = IF Scope # {} /\ 9 \notin Scope THEN "disarmed"
                    ELSE IF Scope = {9} THEN "armed_away"
                    ELSE "armed_custom_bypass"

\* The case has been derived as Disarmed.
C20_Witness == C20_Case /\ alarm_state = "disarmed"

(***************************************************************************)
(* Properties of ElmoModbusInventory.refresh                               *)
(***************************************************************************)
Classes == {"status", "inputs", "coils", "registers"}

\* A read request of the refresh is on the wire.
RefreshOutstanding == refresh_job.pc \in Classes /\ refresh_job.phase = "wait"

\* A write request of the write job is on the wire.
WriteOutstanding == write_job.pc = "wait"

\* C2: when a read fails during refresh, the cached status, discrete inputs,
\* coils and holding registers are what they were before the call.
C2_FailedRefreshKeepsCaches ==
    refresh_job.pc = "raised" => Cached = refresh_job.before

\* C3: a refresh in which the read of any group fails raises and returns no
\* snapshot: a failing response ends the call as raised, and a raised call
\* hands out nothing, so the published data stays as it was.
C3_RefreshAllOrNothing ==
    [][ /\ (/\ RefreshOutstanding
            /\ refresh_job.resp.kind \in FailureKinds
            /\ refresh_job' # refresh_job)
           => (refresh_job'.pc = "raised" /\ refresh_job'.snapshot = None)
        /\ refresh_job.pc = "raised"
           => (/\ refresh_job'.pc \in {"raised", "idle"}
               /\ refresh_job'.snapshot = None
               /\ data' = data)
        /\ (refresh_job.pc # "returned" /\ refresh_job'.pc = "returned")
           => refresh_job.pc = "return"
      ]_vars

\* A refresh has raised after the status and an earlier group of the failing
\* class had been read in the same call.
C3_Witness ==
    /\ refresh_job.pc = "raised"
    /\ cached_status # None
    /\ refresh_job.results # << >>

(***************************************************************************)
(* Properties of write_coil and write_coils                                *)
(***************************************************************************)
\* C4: a write_coil or write_coils that fails (no connection, no response or
\* an error response) raises and leaves the coil cache unchanged.
C4_FailedWriteKeepsCache ==
    [][ /\ (/\ WriteOutstanding
            /\ write_job.resp.kind \in FailureKinds
            /\ write_job' # write_job)
           => (write_job'.pc = "raised" /\ cached_coils' = cached_coils)
        /\ (write_job.pc \in {"send", "wait"} /\ write_job'.pc = "raised")
           => cached_coils' = cached_coils
        /\ (write_job.pc = "send" /\ write_job' # write_job)
           => cached_coils' = cached_coils
      ]_vars

\* A write_coil has raised on an address whose cached value differs from the
\* value it was to write.
C4_Witness ==
    /\ write_job.pc = "raised"
    /\ write_job.kind = "coil"
    /\ Head(write_job.addresses) \in DOMAIN cached_coils
    /\ cached_coils[Head(write_job.addresses)] # write_job.value

\* C5: an address write_coil has succeeded on is in the coil map of every
\* later successful snapshot, registered or not.
C5_WrittenCoilInLaterSnapshots ==
    refresh_job.pc = "returned" => written \subseteq DOMAIN refresh_job.snapshot.coils

\* C6: a successful write_coils sets the cache entry of an address of its span
\* exactly when the address is registered or already cached; every other
\* entry, and everything else in the inventory, stays as it was.
C6_WriteCoilsUpdatesTrackedOnly ==
    [][ (/\ WriteOutstanding
         /\ write_job.kind = "coils"
         /\ write_job.resp.kind = "ok"
         /\ write_job' # write_job)
        => LET start == write_job.start
               payload == write_job.payload
               span == {start + offset - 1 : offset \in 1..Len(payload)}
               hit == {a \in span : a \in coils \/ a \in DOMAIN cached_coils}
           IN /\ DOMAIN cached_coils' = (DOMAIN cached_coils) \cup hit
              /\ \A a \in hit : cached_coils'[a] = payload[a - start + 1]
              /\ \A a \in (DOMAIN cached_coils) \ hit : cached_coils'[a] = cached_coils[a]
              /\ \A a \in span \ hit : a \notin DOMAIN cached_coils'
              /\ UNCHANGED <<sector_count, status_required, discrete_inputs, coils,
                             holding_registers, cached_status, cached_inputs,
                             cached_registers>>
      ]_vars

\* A write_coils over two addresses has succeeded where the first was cached
\* but not registered and the second neither: only the first has an entry.
C6_Witness ==
    /\ write_job.pc = "done"
    /\ write_job.kind = "coils"
    /\ Len(write_job.payload) = 2
    /\ write_job.start \notin coils
    /\ write_job.start \in DOMAIN cached_coils
    /\ cached_coils[write_job.start] = write_job.payload[1]
    /\ write_job.start + 1 \notin DOMAIN cached_coils

\* C7: every address in the discrete-input, coil or holding-register map of a
\* snapshot is registered when the snapshot is produced.
C7_SnapshotAddressesRegistered ==
    refresh_job.pc = "returned"
    => /\ DOMAIN refresh_job.snapshot.discrete_inputs \subseteq discrete_inputs
       /\ DOMAIN refresh_job.snapshot.coils \subseteq coils
       /\ DOMAIN refresh_job.snapshot.holding_registers \subseteq holding_registers

(***************************************************************************)
(* Properties of the shared client                                         *)
(***************************************************************************)
\* C8: at most one request is outstanding on the shared client at any time.
C8_OneRequestOutstanding == ~(RefreshOutstanding /\ WriteOutstanding)

\* C9: a poll begun before a coil write never overwrites the cache or the
\* published snapshot with the older value: with no write on the wire, the
\* cached value of an address write_coil has succeeded on is the device's.
C9_PollKeepsWrittenValue ==
    ~WriteOutstanding
    => \A a \in written \cap DOMAIN cached_coils : cached_coils[a] = device_coils[a]

(***************************************************************************)
(* Properties of the panel configuration                                   *)
(***************************************************************************)
\* The slug the i-th stored panel asks for.
RequestedSlug(i) ==
    LET raw == options.panels[i]
    IN  Slugify(IF raw.entity_id_suffix # << >> THEN raw.entity_id_suffix ELSE raw.name)

LoadedSlugs(n) == {definitions[j].slug : j \in 1..n}

\* C23: the panels load_panel_definitions returns have pairwise distinct
\* slugs; a panel whose requested slug is free keeps it, and a panel whose
\* requested slug is taken by an earlier panel gets it with the smallest of
\* the suffixes _2, _3, ... that no earlier panel has.
C23_LoadedSlugsDistinct ==
    definitions # << >> =>
        /\ \A i, j \in 1..Len(definitions) :
              i # j => definitions[i].slug # definitions[j].slug
        /\ options.has_panels =>
              /\ Len(definitions) = Len(options.panels)
              /\ \A i \in 1..Len(definitions) :
                    LET base == RequestedSlug(i)
                        earlier == LoadedSlugs(i - 1)
                        slug == definitions[i].slug
                    IN  IF base \notin earlier THEN slug = base
                        ELSE \E k \in 2..(Len(definitions) + 1) :
                                /\ slug = Suffixed(base, k)
                                /\ slug \notin earlier
                                /\ \A m \in 2..(k - 1) : Suffixed(base, m) \in earlier

\* Three panels ask for the slugs a_2, a and a: the third is loaded as a_3.
C23_Witness ==
    /\ Len(definitions) = 3
    /\ options.has_panels
    /\ RequestedSlug(1) = <<"a", "2">>
    /\ RequestedSlug(2) = <<"a">>
    /\ RequestedSlug(3) = <<"a">>
    /\ definitions[3].slug = <<"a", "3">>

StoredSlugs(opts) == {opts.panels[i].entity_id_suffix : i \in 1..Len(opts.panels)}

\* C24: whenever a step of the options flow saves the panels, the saved list
\* has pairwise distinct slugs, and loading it gives every panel the slug it
\* was saved with.
C24_SavedSlugsDistinct ==
    [][options' # options =>
          /\ options'.has_panels
          /\ Cardinality(StoredSlugs(options')) = Len(options'.panels)
          /\ LET loaded == LoadPanelDefinitions(options', DEFAULT_SECTORS)
             IN  /\ Len(loaded) = Len(options'.panels)
                 /\ \A i \in 1..Len(loaded) :
                       loaded[i].slug = options'.panels[i].entity_id_suffix]_vars

\* The flow has saved two panels of the same name.
C24_Witness ==
    /\ flow.open
    /\ options.has_panels
    /\ options = PanelsToOptions(flow.panels, flow.sector_limit)
    /\ \E i, j \in 1..Len(options.panels) :
          /\ i < j
          /\ options.panels[i].name = options.panels[j].name
          /\ flow.panels[j].entity_id_suffix = <<"a", "2">>

\* C25: every sector of every mode of every panel the alarm panel entities
\* are set up with lies between 1 and the configured sector count.
C25_SectorsWithinSectorCount ==
    \A i \in 1..Len(definitions) :
        \A m \in 1..Len(MODES) :
            definitions[i].modes[MODES[m]] \subseteq 1..sector_count

ModesUnion(p) == p.modes.away \cup p.modes.home \cup p.modes.night

\* C26 as stated: the managed sectors of every panel are the union of the
\* sectors of its modes.
C26_ManagedIsUnionOfModes ==
    \A i \in 1..Len(definitions) :
        ManagedSectors(definitions[i]) = ModesUnion(definitions[i])

\* C26, amended: the managed sectors of every panel are the union of the
\* sectors of its modes and of its extra disarm sectors; a panel loaded from
\* the named panels has no extra disarm sector.
C26_ManagedIsModesAndExtra ==
    \A i \in 1..Len(definitions) :
        /\ ManagedSectors(definitions[i]) =
              ModesUnion(definitions[i]) \cup definitions[i].extra_disarm_sectors
        /\ options.has_panels => ManagedSectors(definitions[i]) = ModesUnion(definitions[i])

\* A legacy panel with an extra disarm sector and a home sector outside away.
C26_Witness ==
    /\ Len(definitions) = 1
    /\ ~options.has_panels
    /\ definitions[1].extra_disarm_sectors # {}
    /\ ~(definitions[1].modes.home \subseteq definitions[1].modes.away)

(***************************************************************************)
(* Properties of _prepare_address_groups                                   *)
(***************************************************************************)
Members(group) == {group.addresses[i] : i \in 1..Len(group.addresses)}

\* The addresses of S that start a maximal run of consecutive addresses.
RunStarts(S) == {a \in S : (a - 1) \notin S}

\* C27: the groups of _prepare_address_groups are the maximal runs of
\* consecutive addresses of the collection, in ascending order: their members
\* are pairwise disjoint and make up the set of the collection, each group is
\* (first member, number of members, members ascending without gap), a group
\* starts beyond the address after the previous group's last member,
\* repeated addresses count once and the empty collection has no group.
C27_GroupsAreMaximalRuns ==
    result.done =>
        LET S == {arguments[i] : i \in 1..Len(arguments)}
            groups == result.groups
        IN  /\ UNION {Members(groups[k]) : k \in 1..Len(groups)} = S
            /\ \A k, l \in 1..Len(groups) :
                  k # l => Members(groups[k]) \cap Members(groups[l]) = {}
            /\ \A k \in 1..Len(groups) :
                  /\ groups[k].count >= 1
                  /\ groups[k].count = Len(groups[k].addresses)
                  /\ \A i \in 1..groups[k].count :
                        groups[k].addresses[i] = groups[k].start + i - 1
            /\ \A k \in 1..(Len(groups) - 1) :
                  groups[k + 1].start > groups[k].start + groups[k].count
            /\ Len(groups) = Cardinality(RunStarts(S))
            /\ (arguments = << >> => groups = << >>)

\* A collection out of order, with a repeated address, a run of two and a gap.
C27_Witness ==
    /\ result.done
    /\ \E i, j \in 1..Len(arguments) : i < j /\ arguments[i] = arguments[j]
    /\ \E i \in 1..(Len(arguments) - 1) : arguments[i] > arguments[i + 1]
    /\ Len(result.groups) = 2
    /\ \E k \in 1..2 : result.groups[k].count = 2

(***************************************************************************)
(* Properties of the registrations                                         *)
(***************************************************************************)
\* The registered set an operation adds to, in this state.
Registered(op) ==
    CASE op = "add_discrete_inputs" -> discrete_inputs
      [] op = "add_coils" -> coils
      [] op = "add_holding_registers" -> holding_registers
      [] OTHER -> {}

AddOperations == {"add_discrete_inputs", "add_coils", "add_holding_registers"}

\* C28: a registration adds exactly the addresses it is given to its
\* registered set and leaves the two other sets alone; it returns true exactly
\* when one of them was not registered before; the same call made again
\* returns false and changes nothing; and no step ever takes an address out
\* of a registered set.
C28_RegistrationIsIdempotentUnion ==
    [][/\ \A op \in AddOperations : Registered(op) \subseteq Registered(op)'
       /\ call'.turn # call.turn =>
             \E made \in AddOperations :
                /\ made = call'.op
                /\ Registered(made)' = Registered(made) \cup call'.addresses
                /\ \A op \in AddOperations \ {made} : Registered(op)' = Registered(op)
                /\ call'.returned = (\E a \in call'.addresses : a \notin Registered(made))
                /\ (call.op = made /\ call'.addresses = call.addresses) =>
                      /\ ~call'.returned
                      /\ Registered(made)' = Registered(made)
       /\ call'.turn = call.turn =>
             \A op \in AddOperations : Registered(op)' = Registered(op)]_vars

\* A registration of addresses that were all registered returned false, after
\* a coil was written.
C28_Witness ==
    /\ call.op = "add_coils"
    /\ call.addresses # {}
    /\ ~call.returned
    /\ written # {}

(***************************************************************************)
(* Properties of the snapshots                                             *)
(***************************************************************************)
\* What a reader finds in a snapshot.
SnapshotView(snapshot) ==
    [status |-> snapshot.status,
     discrete_inputs |-> snapshot.discrete_inputs,
     coils |-> SnapshotCoils(snapshot),
     holding_registers |-> snapshot.holding_registers]

\* C29: a snapshot refresh() has returned reads the same ever after, in the
\* hands of the poll that awaits it and as the coordinator's data: no write,
\* registration or refresh changes its status or its maps.
C29_SnapshotNeverChanges ==
    [][/\ (data # None /\ data' = data)
             => SnapshotView(data)' = SnapshotView(data)
       /\ (refresh_job.pc = "returned" /\ refresh_job'.pc = "returned")
             => SnapshotView(refresh_job.snapshot)' = SnapshotView(refresh_job.snapshot)]_vars

\* The published snapshot holds a coil with the value it had at the refresh,
\* while a later write has changed it in the cache.
C29_Witness ==
    /\ data # None
    /\ written # {}
    /\ \E address \in DOMAIN data.coils :
          /\ address \in DOMAIN cached_coils
          /\ cached_coils[address] # data.coils[address]

(***************************************************************************)
(* Properties of the status read                                           *)
(***************************************************************************)
\* C30: the sector count lies within 1..64, and the armed and the triggered
\* bits of every status a status read has produced are sector_count long
\* each.
C30_StatusHasSectorCountBits ==
    /\ sector_count \in 1..DEFAULT_SECTORS
    /\ cached_status # None =>
          /\ Len(cached_status.armed) = sector_count
          /\ Len(cached_status.triggered) = sector_count

(***************************************************************************)
(* The commands of one configured panel: the entity arms the sectors of    *)
(* its modes and disarms the sectors it manages.                           *)
(***************************************************************************)
\* The panel definitions an entity is built with: sectors in two modes and,
\* possibly, one extra disarm sector.
CommandPanels ==
    [modes : [away : SUBSET PanelSectors, home : {{}, {1}}, night : {{}}],
     extra_disarm_sectors : {{}, {MaxPanelSectors + 1}}]

\* The coordinator after construction and the entity of one panel; the
\* device has any of its first sectors armed.
InitCommands ==
    /\ sector_count \in {ClampStatusCount(n) :
                           n \in {MaxPanelSectors + 1, REGISTER_STATUS_COUNT}}
    /\ device_armed \in SUBSET (1..(MaxPanelSectors + 1))
    /\ panel \in CommandPanels
    /\ command_job = IdleCommand
    /\ data = None
    /\ last_update_success = TRUE
    /\ refresh_requested = FALSE
    /\ status_required = TRUE
    /\ discrete_inputs = {}
    /\ coils = {}
    /\ holding_registers = {}
    /\ cached_status = None
    /\ cached_inputs = EmptyMap
    /\ cached_coils = EmptyMap
    /\ cached_registers = EmptyMap
    /\ device_coils = [a \in CoilAddresses |-> FALSE]
    /\ refresh_job = IdleRefresh
    /\ write_job = IdleWrite
    /\ poller = "Idle"
    /\ polls = 0
    /\ writes = 0
    /\ written = {}
    /\ alarm_state = "unknown"
    /\ device_healthy = FALSE
    /\ options = NoOptions
    /\ flow = NoFlow
    /\ definitions = << >>
    /\ call = NoCall
    /\ arguments = << >>
    /\ result = NoResult
    /\ hass = NoHass
    /\ user_codes = << >>

\* async_alarm_disarm of the entity: target = self._managed_sectors or
\* self._all_sectors.
DisarmPanel == AsyncAlarmDisarm(ManagedSectors(panel))

\* async_alarm_arm_away, _home, _night of the entity: the sectors of the mode.
ArmPanel(mode) == AsyncAlarmArm(ModeSectors(panel, mode))

NextCommands ==
    \/ AsyncUpdateData
    \/ DisarmPanel
    \/ \E i \in 1..Len(MODES) : ArmPanel(MODES[i])
    \/ CommandWrite
    \/ CommandFinish

SpecCommands == InitCommands /\ [][NextCommands]_vars

\* The last known armed bit of a sector: False when the data has no such bit.
LastKnownArmed(s) == data # None /\ s <= Len(data.bits) /\ data.bits[s]

\* C21: the payload of a command affects only the sectors the panel manages:
\* a sector the panel does not manage keeps its last known armed bit, every
\* target sector gets the requested value, and a managed sector that is not
\* a target gets False.
C21_PayloadLimitedToManagedSectors ==
    [][ (command_job.pc = "idle" /\ command_job'.pc = "write")
        => \A s \in 1..Len(command_job'.payload) :
             /\ s \in command_job'.target_sectors
                  => command_job'.payload[s] = command_job'.value
             /\ s \notin (ManagedSectors(panel) \cup command_job'.target_sectors)
                  => command_job'.payload[s] = LastKnownArmed(s)
             /\ s \in (ManagedSectors(panel) \ command_job'.target_sectors)
                  => command_job'.payload[s] = FALSE
      ]_vars

\* C22: the payload of every command has exactly as many bits as the
\* coordinator's sector count, and when no status has been read every bit is
\* False except the target sectors, which carry the requested value.
C22_PayloadHasSectorCountBits ==
    [][ (command_job.pc = "idle" /\ command_job'.pc = "write")
        => /\ Len(command_job'.payload) = sector_count
           /\ data = None =>
                \A s \in 1..Len(command_job'.payload) :
                    command_job'.payload[s] =
                        (s \in command_job'.target_sectors /\ command_job'.value)
      ]_vars

(***************************************************************************)
(* SpecService: calls of the set_input_exclusion service on one config     *)
(* entry, with the polls of its coordinator.  The inputs and the flag of   *)
(* the last call are kept in `arguments`.                                  *)
(***************************************************************************)
\* _async_handle_set_input_exclusion, lines 409-430, for one entry: the
\* selected inputs are the numbers given and those of the entities given.
HandleSetInputExclusion(inputs, entity_inputs, excluded) ==
    /\ Quiet
    /\ ServiceCall(inputs \cup entity_inputs, excluded)
    /\ arguments' = <<inputs, entity_inputs, excluded>>

NextService ==
    \/ \E inputs \in SUBSET InputIndexes, entity_inputs \in SUBSET InputIndexes,
          excluded \in BOOLEAN :
         HandleSetInputExclusion(inputs, entity_inputs, excluded)
    \/ WriteCoilSend
    \/ WriteCoilRecv
    \/ WriteFinish
    \/ SerialPollStart
    \/ RefreshBegin
    \/ ReadStatusBegin
    \/ ReadStatusSend
    \/ ReadStatusRecv
    \/ ReadDiscreteInputsBegin
    \/ ReadCoilsBegin
    \/ ReadHoldingRegistersBegin
    \/ RefreshReturn
    \/ PollFinish

SpecService == Init /\ [][NextService]_vars

\* The inputs and the flag of the last service call.
CallInputs == IF Len(arguments) = 3 THEN arguments[1] \cup arguments[2] ELSE {}

CallExcluded == Len(arguments) = 3 /\ arguments[3]

\* The coils the last service call is to write.
CallAddresses == {INPUT_SENSOR_EXCLUDED_START + i - 1 : i \in CallInputs}

\* C31: the service writes, for each selected input i, the single coil at
\* INPUT_SENSOR_EXCLUDED_START + i - 1 with False when excluded is true and
\* True when it is false; it writes no other address; it requests a refresh
\* of the coordinator after its writes have succeeded.
C31_ServiceWritesSelectedCoils ==
    [][ /\ (write_job.pc = "send" /\ write_job'.pc = "wait")
           => /\ Head(write_job.addresses) \in CallAddresses
              /\ write_job.value = (IF CallExcluded THEN FALSE ELSE TRUE)
        /\ \A a \in CoilAddresses :
             device_coils'[a] # device_coils[a]
               => /\ write_job.pc = "send"
                  /\ a = Head(write_job.addresses)
                  /\ a \in CallAddresses
                  /\ device_coils'[a] = (IF CallExcluded THEN FALSE ELSE TRUE)
        /\ write_job'.pc = "done"
           => /\ written' \cap CallAddresses = CallAddresses
              /\ \A a \in CallAddresses : device_coils'[a] = ~CallExcluded
        /\ (write_job.pc = "done" /\ write_job'.pc = "idle") => refresh_requested'
        /\ (~refresh_requested /\ refresh_requested') => write_job.pc = "done"
      ]_vars

\* A call that excludes two inputs has written both coils and asked for a
\* refresh.
C31_Witness ==
    /\ Cardinality(CallInputs) = 2
    /\ CallExcluded
    /\ write_job.pc = "idle"
    /\ refresh_requested
    /\ writes = 1
    /\ written = CallAddresses
    /\ \A a \in CallAddresses : device_coils[a] = FALSE

\* The coils of the last call that come before the one the job is at.
WrittenBefore == {a \in CallAddresses : a < Head(write_job.addresses)}

\* C38: the coil writes of a call are issued one at a time in ascending
\* input order; when one fails no later input is written, the error is
\* raised to the caller, no refresh is requested and nothing is retried,
\* while the inputs written before the failure stay written on the device
\* and in the cache.
C38_FailedWriteStopsTheCall ==
    [][ /\ (write_job.pc = "send" /\ write_job'.pc = "wait")
           => /\ \A j \in 2..Len(write_job.addresses) :
                    Head(write_job.addresses) < write_job.addresses[j]
              /\ write_job.resp = NoResponse
        /\ write_job'.pc = "raised"
           => /\ write_job'.addresses = write_job.addresses
              /\ device_coils' = device_coils
              /\ cached_coils' = cached_coils
              /\ refresh_requested' = refresh_requested
              /\ \A a \in WrittenBefore :
                    /\ device_coils'[a] = ~CallExcluded
                    /\ a \in DOMAIN cached_coils'
                    /\ cached_coils'[a] = ~CallExcluded
        /\ write_job.pc = "raised"
           => /\ write_job' \in {write_job, IdleWrite}
              /\ device_coils' = device_coils
              /\ cached_coils' = cached_coils
              /\ refresh_requested' = refresh_requested
              /\ writes' = writes
      ]_vars

\* The second write of a call that activates two inputs has failed: the
\* first coil is set on the device and in the cache, the second is not.
C38_Witness ==
    /\ Cardinality(CallInputs) = 2
    /\ ~CallExcluded
    /\ write_job.pc = "raised"
    /\ Len(write_job.addresses) = 1
    /\ ~device_coils[Head(write_job.addresses)]
    /\ \A a \in WrittenBefore : device_coils[a] /\ cached_coils[a]
    /\ WrittenBefore # {}
    /\ ~refresh_requested

(***************************************************************************)
(* SpecHass: setups and unloads of the config entries of the integration.  *)
(* Each entry has its own client, inventory and coordinator; an entry is   *)
(* followed through the awaits of async_setup_entry and async_unload_entry,*)
(* and the entries' steps interleave on the event loop.                    *)
(***************************************************************************)
\* All the variables a setup or an unload leaves alone.
home_state ==
    <<sector_count, status_required, discrete_inputs, coils, holding_registers,
      cached_status, cached_inputs, cached_coils, cached_registers, device_coils,
      refresh_job, write_job, poller, refresh_requested, data,
      last_update_success, polls, writes, written, device_armed, command_job,
      panel, alarm_state, device_healthy, options, flow, definitions, call,
      arguments, result, user_codes>>

InitHass ==
    /\ AtRest
    /\ sector_count = ClampSectorCount(MaxSectors)
    /\ arguments = << >>
    /\ result = NoResult
    /\ hass = NoHass
    /\ user_codes = << >>

\* async_setup_services: registers the service unless the flag says it is
\* registered.
AsyncSetupServices(h) ==
    IF h.registered THEN h
    ELSE [h EXCEPT !.registered = TRUE, !.services = h.services + 1]

\* async_unload_services: removes the service when the flag says it is
\* registered.
AsyncUnloadServices(h) ==
    IF ~h.registered THEN h
    ELSE [h EXCEPT !.registered = FALSE, !.services = 0]

\* async_setup_entry, lines 38-51: a new client, inventory and coordinator.
SetupEntryBegin(e) ==
    /\ hass.entries[e].state = "not_loaded"
    /\ hass' = [hass EXCEPT !.entries[e] = [NotLoaded EXCEPT !.state = "first_refresh"]]
    /\ UNCHANGED home_state

\* async_setup_entry, lines 53-60: a first refresh that fails raises
\* ConfigEntryNotReady and the setup ends; after one that succeeds the context
\* is stored and the services are set up.
FirstRefresh(e) ==
    /\ hass.entries[e].state = "first_refresh"
    /\ \E outcome \in Outcomes :
         LET client == [hass.entries[e] EXCEPT !.connected = (outcome # "unconnected")]
         IN hass' =
              IF outcome = "ok"
              THEN AsyncSetupServices(
                     [hass EXCEPT !.entries[e] =
                        [client EXCEPT !.state = "forwarding", !.refreshed = TRUE,
                                       !.stored = TRUE]])
              ELSE [hass EXCEPT !.entries[e] = [client EXCEPT !.state = "not_loaded"]]
    /\ UNCHANGED home_state

\* async_setup_entry, lines 62-65: the platforms are set up.
ForwardEntrySetups(e) ==
    /\ hass.entries[e].state = "forwarding"
    /\ hass' = [hass EXCEPT !.entries[e].state = "loaded"]
    /\ UNCHANGED home_state

\* The connection of a loaded entry drops, or a poll connects again.
ConnectionChanges(e) ==
    /\ hass.entries[e].state = "loaded"
    /\ hass' = [hass EXCEPT !.entries[e].connected = ~hass.entries[e].connected]
    /\ UNCHANGED home_state

\* Home Assistant unloads a loaded entry: async_unload_entry starts.
UnloadEntryBegin(e) ==
    /\ hass.entries[e].state = "loaded"
    /\ hass' = [hass EXCEPT !.entries[e].state = "unloading"]
    /\ UNCHANGED home_state

\* async_unload_entry, lines 70-73: when the platforms unloaded the context
\* is popped; when they did not, the entry is left as it is (Home Assistant
\* marks it as failed to unload).
UnloadPlatforms(e, unload_ok) ==
    /\ hass.entries[e].state = "unloading"
    /\ hass' = IF unload_ok
               THEN [hass EXCEPT !.entries[e].stored = FALSE,
                                 !.entries[e].state = "closing"]
               ELSE [hass EXCEPT !.entries[e].state = "failed_unload"]
    /\ UNCHANGED home_state

\* A close that leaves the client as it is.
InventoryCloseNothing(client) == client

\* ElmoModbusInventory.close: the client is closed when it is connected.
InventoryClose(client) ==
    [client EXCEPT !.closed = client.connected, !.connected = FALSE]

\* async_unload_entry, line 75: coordinator.async_close runs the close on an
\* executor thread.
AsyncClose(e) ==
    /\ hass.entries[e].state = "closing"
    /\ hass' = [hass EXCEPT !.entries[e] =
                  [InventoryClose(hass.entries[e]) EXCEPT !.state = "closed"]]
    /\ UNCHANGED home_state

\* async_unload_entry, lines 77-79: the services are unloaded and the unload
\* returns.
UnloadEntryServices(e) ==
    /\ hass.entries[e].state = "closed"
    /\ hass' = AsyncUnloadServices([hass EXCEPT !.entries[e] = NotLoaded])
    /\ UNCHANGED home_state

NextHass ==
    \E e \in EntryIds :
        \/ SetupEntryBegin(e)
        \/ FirstRefresh(e)
        \/ ForwardEntrySetups(e)
        \/ ConnectionChanges(e)
        \/ UnloadEntryBegin(e)
        \/ \E unload_ok \in BOOLEAN : UnloadPlatforms(e, unload_ok)
        \/ AsyncClose(e)
        \/ UnloadEntryServices(e)

SpecHass == InitHass /\ [][NextHass]_vars

\* The entries whose setup has finished and that were not unloaded.
LoadedEntries == {e \in EntryIds : hass.entries[e].state = "loaded"}

\* C32: the service is registered whenever at least one config entry of the
\* integration is loaded, and it is never registered twice at a time.
C32_ServiceRegisteredWhileLoaded ==
    /\ LoadedEntries # {} => hass.services >= 1
    /\ hass.services <= 1

\* C39: the context of an entry (inventory and coordinator) is stored only
\* after the first refresh has succeeded; it is removed, and the client's
\* connection closed, exactly when unloading the platforms succeeded; when
\* the platforms do not unload the context stays stored and the connection
\* is not closed.
C39_ContextFollowsSetupAndUnload ==
    [][ \A e \in EntryIds :
          LET old == hass.entries[e]
              new == hass'.entries[e]
          IN /\ new.stored => new.refreshed
             /\ (~old.stored /\ new.stored) => old.state = "first_refresh"
             /\ (old.stored /\ ~new.stored)
                  => old.state = "unloading" /\ new.state = "closing"
             /\ (old.state = "unloading" /\ new.state # "unloading")
                  => \/ new.state = "closing" /\ ~new.stored
                     \/ /\ new.state = "failed_unload"
                        /\ new.stored
                        /\ new.connected = old.connected
                        /\ ~new.closed
             /\ (~old.closed /\ new.closed) => old.state = "closing"
             /\ (old.state = "closing" /\ new.state # "closing")
                  => ~new.stored /\ ~new.connected /\ new.closed = old.connected
             /\ old.state = "failed_unload" => new = old
      ]_vars

\* One entry was unloaded and its connected client closed; the platforms of
\* the other did not unload, and its context and connection are kept.
C39_Witness ==
    \E e, f \in EntryIds :
        /\ hass.entries[e].state = "closed"
        /\ hass.entries[e].closed
        /\ ~hass.entries[e].stored
        /\ hass.entries[f].state = "failed_unload"
        /\ hass.entries[f].stored
        /\ hass.entries[f].connected

(***************************************************************************)
(* input_selectors: selections of alarm inputs written as text.  A text is *)
(* the sequence of its characters.                                         *)
(***************************************************************************)
DigitChars == <<"0", "1", "2", "3", "4", "5", "6", "7", "8", "9">>

\* \d
IsDigit(c) == \E i \in 1..Len(DigitChars) : DigitChars[i] = c

DigitValue(c) == (CHOOSE i \in 1..Len(DigitChars) : DigitChars[i] = c) - 1

\* All the characters of the text are digits, and there is one at least (\d+).
AllDigits(text) == text # << >> /\ \A i \in 1..Len(text) : IsDigit(text[i])

\* int() of a text of digits
RECURSIVE IntOfDigits(_)
IntOfDigits(text) ==
    IF text = << >> THEN 0
    ELSE 10 * IntOfDigits(SubSeq(text, 1, Len(text) - 1)) + DigitValue(text[Len(text)])

\* str() of a number that is not negative
RECURSIVE Str(_)
Str(n) ==
    IF n < 10 THEN <<DigitChars[n + 1]>>
    ELSE Str(n \div 10) \o <<DigitChars[(n % 10) + 1]>>

\* str.strip(): the text without its leading and trailing blanks.
Strip(text) ==
    LET inked == {i \in 1..Len(text) : text[i] # " "}
    IN IF inked = {} THEN << >>
       ELSE SubSeq(text, Min(inked), CHOOSE i \in inked : \A j \in inked : j <= i)

\* value.replace(";", ",")
ReplaceSemicolons(text) ==
    [i \in 1..Len(text) |-> IF text[i] = ";" THEN "," ELSE text[i]]

\* str.split(","): the pieces between the commas, empty ones included.
Split(text) ==
    LET cuts == Sorted({0, Len(text) + 1} \cup {i \in 1..Len(text) : text[i] = ","})
    IN [k \in 1..(Len(cuts) - 1) |-> SubSeq(text, cuts[k] + 1, cuts[k + 1] - 1)]

\* The digits a text begins with, and those it ends with.
LeadingDigits(text) ==
    Cardinality({k \in 1..Len(text) : \A i \in 1..k : IsDigit(text[i])})

TrailingDigits(text) ==
    Cardinality({k \in 1..Len(text) : \A i \in (Len(text) - k + 1)..Len(text) : IsDigit(text[i])})

\* _INPUT_RANGE_PATTERN, ^(\d+)\s*-\s*(\d+)$: the two groups of a match, or no
\* match.
RangeMatch(part) ==
    LET a == LeadingDigits(part)
        b == TrailingDigits(part)
        n == Len(part)
        between == {i \in (a + 1)..(n - b) : TRUE}
    IN IF /\ a >= 1
          /\ b >= 1
          /\ a + b < n
          /\ Cardinality({i \in between : part[i] = "-"}) = 1
          /\ \A i \in between : part[i] \in {"-", " "}
       THEN [matched |-> TRUE,
             start |-> IntOfDigits(SubSeq(part, 1, a)),
             end |-> IntOfDigits(SubSeq(part, n - b + 1, n))]
       ELSE [matched |-> FALSE, start |-> 0, end |-> 0]

\* int(part) of a stripped text: digits, with a sign or without; anything
\* else is a ValueError.
IntOf(part) ==
    IF AllDigits(part) THEN [int |-> TRUE, value |-> IntOfDigits(part)]
    ELSE IF part # << >> /\ part[1] = "-" /\ AllDigits(Tail(part))
         THEN [int |-> TRUE, value |-> 0 - IntOfDigits(Tail(part))]
         ELSE [int |-> FALSE, value |-> 0]

\* A range that begins where it is written to begin.
RangeStartAsWritten(start, end) == start

\* range_start = min(start, end)
RangeStart(start, end) == IF start <= end THEN start ELSE end

\* range_end = max(start, end)
RangeEnd(start, end) == IF start <= end THEN end ELSE start

\* raise ValueError("invalid_input")
InvalidInput == [raised |-> TRUE, value |-> << >>]

\* parse_input_sensor_selection, lines 40-68: the loop over the parts; `result`
\* holds the sensors in the order they were met, each once.
RECURSIVE ParseWalk(_, _, _)
ParseWalk(parts, found, max_input) ==
    IF parts = << >> THEN [raised |-> FALSE, value |-> found]
    ELSE
      LET part == Strip(Head(parts))
          seen == {found[i] : i \in 1..Len(found)}
          match == RangeMatch(part)
          number == IntOf(part)
      IN IF part = << >> THEN ParseWalk(Tail(parts), found, max_input)
         ELSE IF match.matched
         THEN LET range_start == RangeStart(match.start, match.end)
                  range_end == RangeEnd(match.start, match.end)
              IN IF range_start < 1 \/ range_end > max_input THEN InvalidInput
                 ELSE ParseWalk(Tail(parts),
                                found \o Sorted((range_start..range_end) \ seen),
                                max_input)
         ELSE IF ~number.int THEN InvalidInput
         ELSE IF number.value < 1 \/ number.value > max_input THEN InvalidInput
         ELSE ParseWalk(Tail(parts),
                        IF number.value \in seen THEN found
                        ELSE Append(found, number.value),
                        max_input)

\* parse_input_sensor_selection(value, max_input=max_input)
ParseInputSensorSelection(value, max_input) ==
    IF Strip(value) = << >> THEN InvalidInput
    ELSE LET walked == ParseWalk(Split(ReplaceSemicolons(value)), << >>, max_input)
         IN IF walked.raised \/ walked.value = << >> THEN InvalidInput
            ELSE [raised |-> FALSE,
                  value |-> Sorted({walked.value[i] : i \in 1..Len(walked.value)})]

\* sorted(inputs): the numbers of a list in ascending order, each as often as
\* the list has it.
RECURSIVE SortedList(_)
SortedList(inputs) ==
    IF inputs = << >> THEN << >>
    ELSE LET low == Min({inputs[i] : i \in 1..Len(inputs)})
             at == Min({i \in 1..Len(inputs) : inputs[i] = low})
         IN <<low>> \o SortedList(SubSeq(inputs, 1, at - 1) \o
                                  SubSeq(inputs, at + 1, Len(inputs)))

\* format_input_sensor_list, lines 85-94: the ranges of consecutive values.
RECURSIVE FormatWalk(_, _, _, _)
FormatWalk(values, start, prev, ranges) ==
    IF values = << >> THEN Append(ranges, <<start, prev>>)
    ELSE IF Head(values) = prev + 1
         THEN FormatWalk(Tail(values), start, Head(values), ranges)
         ELSE FormatWalk(Tail(values), Head(values), Head(values),
                         Append(ranges, <<start, prev>>))

\* lines 97-101: a number, or the two ends of a range with a dash between.
FormatPart(range) ==
    IF range[1] = range[2] THEN Str(range[1])
    ELSE Str(range[1]) \o <<"-">> \o Str(range[2])

\* A separator without its blank.
SeparatorBare == <<",">>

\* ", "
Separator == <<",", " ">>

\* ", ".join(parts)
RECURSIVE Join(_)
Join(parts) ==
    IF parts = << >> THEN << >>
    ELSE IF Len(parts) = 1 THEN parts[1]
    ELSE parts[1] \o Separator \o Join(Tail(parts))

\* format_input_sensor_list(inputs)
FormatInputSensorList(inputs) ==
    IF inputs = << >> THEN << >>
    ELSE LET values == SortedList(inputs)
             ranges == FormatWalk(Tail(values), values[1], values[1], << >>)
         IN Join([k \in 1..Len(ranges) |-> FormatPart(ranges[k])])

(***************************************************************************)
(* SpecSelectors: parse_input_sensor_selection and format_input_sensor_list *)
(* called on texts and on lists, and each on what the other returned.      *)
(***************************************************************************)
\* The characters of the texts tried.
Chars == {"0", "1", "2", "3", "-", ",", ";", " ", "a"}

\* The canonical texts: ascending ranges and single numbers within
\* 1..MaxInput, no two of them overlapping or adjacent, separated by ", ".
CanonicalRanges ==
    {ranges \in UNION {[1..n -> (1..MaxInput) \X (1..MaxInput)] :
                         n \in 1..((MaxInput + 1) \div 2)} :
       /\ \A k \in 1..Len(ranges) : ranges[k][1] <= ranges[k][2]
       /\ \A k \in 1..(Len(ranges) - 1) : ranges[k][2] + 1 < ranges[k + 1][1]}

RECURSIVE Written(_)
Written(ranges) ==
    LET first == IF ranges[1][1] = ranges[1][2]
                 THEN Str(ranges[1][1])
                 ELSE Str(ranges[1][1]) \o <<"-">> \o Str(ranges[1][2])
    IN IF Len(ranges) = 1 THEN first
       ELSE first \o <<",", " ">> \o Written(Tail(ranges))

CanonicalTexts == {Written(ranges) : ranges \in CanonicalRanges}

Texts == UNION {[1..n -> Chars] : n \in 0..MaxText} \cup CanonicalTexts

\* The lists of inputs within 1..MaxInput that have no number twice.
InputLists ==
    {inputs \in UNION {[1..n -> 1..MaxInput] : n \in 0..MaxInput} :
       \A i, j \in 1..Len(inputs) : inputs[i] = inputs[j] => i = j}

InitSelectors ==
    /\ AtRest
    /\ sector_count = ClampSectorCount(MaxSectors)
    /\ arguments \in [text : Texts, inputs : {<< >>}, of : {"text"}]
                     \cup [text : {<< >>}, inputs : InputLists, of : {"inputs"}]
    /\ result = NoResult
    /\ hass = NoHass
    /\ user_codes = << >>

\* parse_input_sensor_selection(arguments.text, max_input=MaxInput)
ParseCall ==
    /\ ~result.done
    /\ arguments.of = "text"
    /\ LET parsed == ParseInputSensorSelection(arguments.text, MaxInput)
       IN result' = [done |-> TRUE, op |-> "parse", raised |-> parsed.raised,
                     value |-> parsed.value, text |-> << >>]
    /\ UNCHANGED <<program_state, arguments>>

\* format_input_sensor_list(arguments.inputs)
FormatCall ==
    /\ ~result.done
    /\ arguments.of = "inputs"
    /\ result' = [done |-> TRUE, op |-> "format", raised |-> FALSE,
                  value |-> << >>, text |-> FormatInputSensorList(arguments.inputs)]
    /\ UNCHANGED <<program_state, arguments>>

\* format_input_sensor_list of the list a parse returned
FormatParsedCall ==
    /\ result.done
    /\ result.op = "parse"
    /\ ~result.raised
    /\ result' = [done |-> TRUE, op |-> "parse_format", raised |-> FALSE,
                  value |-> result.value,
                  text |-> FormatInputSensorList(result.value)]
    /\ UNCHANGED <<program_state, arguments>>

\* parse_input_sensor_selection of the text a format returned
ParseFormattedCall ==
    /\ result.done
    /\ result.op = "format"
    /\ LET parsed == ParseInputSensorSelection(result.text, MaxInput)
       IN result' = [done |-> TRUE, op |-> "format_parse", raised |-> parsed.raised,
                     value |-> parsed.value, text |-> result.text]
    /\ UNCHANGED <<program_state, arguments>>

NextSelectors ==
    \/ ParseCall
    \/ FormatCall
    \/ FormatParsedCall
    \/ ParseFormattedCall

SpecSelectors == InitSelectors /\ [][NextSelectors]_vars

\* The numbers of a list, and a list in strictly ascending order.
Numbers(list) == {list[i] : i \in 1..Len(list)}

StrictlyAscending(list) == \A i \in 1..(Len(list) - 1) : list[i] < list[i + 1]

\* C33: formatting what was parsed from a canonical text gives the text
\* back, and parsing what was formatted from a non-empty list of distinct
\* inputs within 1..max_input gives the list in ascending order.
C33_ParseAndFormatRoundTrip ==
    /\ (result.done /\ result.op = "parse" /\ arguments.text \in CanonicalTexts)
         => ~result.raised
    /\ (result.done /\ result.op = "parse_format" /\ arguments.text \in CanonicalTexts)
         => result.text = arguments.text
    /\ (result.done /\ result.op = "format_parse" /\ arguments.inputs # << >>)
         => /\ ~result.raised
            /\ StrictlyAscending(result.value)
            /\ Len(result.value) = Len(arguments.inputs)
            /\ Numbers(result.value) = Numbers(arguments.inputs)

\* "1, 3" was parsed and formatted back.
C33_Witness ==
    /\ result.done
    /\ result.op = "parse_format"
    /\ arguments.text = <<"1", ",", " ", "3">>
    /\ result.value = <<1, 3>>
    /\ result.text = arguments.text

\* The tokens written in a text: what stands between two separators (or an
\* end of the text), without the blanks around it, when anything is left.
IsSeparator(c) == c \in {",", ";"}

Tokens(text) ==
    {Strip(SubSeq(text, i, j)) : <<i, j>> \in
       {span \in (1..Len(text)) \X (1..Len(text)) :
          /\ span[1] <= span[2]
          /\ \A k \in span[1]..span[2] : ~IsSeparator(text[k])
          /\ span[1] = 1 \/ IsSeparator(text[span[1] - 1])
          /\ span[2] = Len(text) \/ IsSeparator(text[span[2] + 1])}} \ {<< >>}

\* The ways to read a token as a range: digits, blanks, a dash, blanks,
\* digits.  Each is the pair of the numbers written.
RangeReadings(token) ==
    {<<IntOfDigits(SubSeq(token, 1, a)), IntOfDigits(SubSeq(token, b, Len(token)))>> :
       <<a, b>> \in
         {cut \in (1..Len(token)) \X (1..Len(token)) :
            /\ cut[1] + 1 < cut[2]
            /\ AllDigits(SubSeq(token, 1, cut[1]))
            /\ AllDigits(SubSeq(token, cut[2], Len(token)))
            /\ \E d \in (cut[1] + 1)..(cut[2] - 1) :
                 /\ token[d] = "-"
                 /\ \A k \in ((cut[1] + 1)..(cut[2] - 1)) \ {d} : token[k] = " "}}

\* The numbers a token writes: its number, or the numbers between the two
\* ends of its range, whichever end comes first.
TokenNumbers(token) ==
    IF AllDigits(token) THEN {IntOfDigits(token)}
    ELSE UNION {{n \in 0..(MaxInput + 1) :
                   \/ reading[1] <= n /\ n <= reading[2]
                   \/ reading[2] <= n /\ n <= reading[1]} :
                reading \in RangeReadings(token)}

\* A token that is neither a number nor a range, or that lies outside
\* 1..max_input.
BadToken(token) ==
    \/ ~AllDigits(token) /\ RangeReadings(token) = {}
    \/ AllDigits(token) /\ IntOfDigits(token) \notin 1..MaxInput
    \/ \E reading \in RangeReadings(token) :
         reading[1] \notin 1..MaxInput \/ reading[2] \notin 1..MaxInput

\* C40: what parse_input_sensor_selection returns is strictly ascending (so
\* free of duplicates), within 1..max_input, and holds exactly the numbers
\* and ranges written in the input, reversed or overlapping as they may be;
\* it raises ValueError and returns nothing when the input is empty or
\* blank, or when a token is neither a number nor a range or lies outside
\* 1..max_input.
C40_ParseReturnsWhatIsWritten ==
    (result.done /\ result.op = "parse")
      => /\ ~result.raised
              => /\ StrictlyAscending(result.value)
                 /\ Numbers(result.value) \subseteq 1..MaxInput
                 /\ Numbers(result.value) =
                      UNION {TokenNumbers(token) : token \in Tokens(arguments.text)}
         /\ (\/ Strip(arguments.text) = << >>
             \/ \E token \in Tokens(arguments.text) : BadToken(token))
              => result.raised /\ result.value = << >>

\* The reversed range "3-1" was parsed to 1, 2, 3.
C40_Witness ==
    /\ result.done
    /\ result.op = "parse"
    /\ arguments.text = <<"3", "-", "1">>
    /\ ~result.raised
    /\ result.value = <<1, 2, 3>>

\* The bitmaps that agree with the polled one on every sector the panel
\* manages.
AgreeingBitmaps ==
    LET unmanaged == (1..Len(data.bits)) \ Scope
    IN {[i \in 1..Len(data.bits) |->
           IF i \in flipped THEN ~data.bits[i] ELSE data.bits[i]] :
        flipped \in SUBSET unmanaged}

\* C34: the alarm_state of a panel that manages at least one sector depends
\* only on the armed bits of its managed sectors: every bitmap that agrees
\* with the polled one on the managed sectors gives the state reported.
C34_StateDependsOnManagedOnly ==
    (Reported /\ Scope # {})
      => \A bits \in AgreeingBitmaps :
           AlarmState([bits |-> bits], panel) = alarm_state

\* ArmedHome has been reported for a panel that manages sectors, some armed,
\* while a sector it does not manage is armed as well.
C34_Witness ==
    /\ Reported
    /\ Scope # {}
    /\ Seen # {}
    /\ Armed \ Scope # {}
    /\ (1..Len(data.bits)) \ (Scope \cup Armed) # {}
    /\ alarm_state = "armed_home"


(***************************************************************************)
(* SpecCodes: an alarm panel entity built from options the user codes step *)
(* of the options flow has saved; it is disarmed and armed with and        *)
(* without a code.  A code is a text, a sequence of characters.            *)
(***************************************************************************)
\* The lines a user may type into the codes form.
CodeLines == {<<"1">>, <<" ", "1">>, <<"2">>, <<"1", "2">>, <<" ">>}

\* The text of the codes form, line by line.
CodeForms ==
    UNION {[1..n -> CodeLines] : n \in 0..MaxCodes}

\* The texts of a list.
Elements(list) == {list[i] : i \in 1..Len(list)}

\* _parse_user_code_input, the loop: blank lines are skipped, a line is kept
\* stripped, a code met twice is invalid.
RECURSIVE ParseCodesWalk(_, _)
ParseCodesWalk(lines, found) ==
    IF lines = << >> THEN [invalid |-> FALSE, codes |-> found]
    ELSE LET code == Strip(Head(lines))
         IN IF code = << >> THEN ParseCodesWalk(Tail(lines), found)
            ELSE IF code \in Elements(found)
                 THEN [invalid |-> TRUE, codes |-> << >>]
                 ELSE ParseCodesWalk(Tail(lines), Append(found, code))

\* _parse_user_code_input
ParseUserCodeInput(lines) ==
    IF lines = << >> THEN [invalid |-> FALSE, codes |-> << >>]
    ELSE ParseCodesWalk(lines, << >>)

\* options[OPTION_USER_CODES] as async_step_user_codes can have saved it:
\* the parsed codes of a valid form.
SavedUserCodes ==
    {ParseUserCodeInput(lines).codes :
       lines \in {form \in CodeForms : ~ParseUserCodeInput(form).invalid}}

\* ElmoModbusAlarmControlPanel.__init__, lines 91-100: the codes of the
\* options, stripped, without the blank ones.
UserCodes(raw_codes) ==
    SelectSeq([i \in 1..Len(raw_codes) |-> Strip(raw_codes[i])],
              LAMBDA code : code # << >>)

\* The code of a call: None, or a text.
NoCode == [given |-> FALSE, text |-> << >>]

CallCodes ==
    {NoCode} \cup [given : {TRUE}, text : CodeLines \cup {<< >>}]

\* _require_valid_code that only asks for some code when codes are
\* configured.
RequireAnyCode(codes, code) == codes = << >> \/ code.given

\* _require_valid_code: TRUE when it returns, FALSE when it raises
\* HomeAssistantError.
RequireValidCode(codes, code) ==
    IF codes = << >> THEN TRUE
    ELSE IF ~code.given THEN FALSE
    ELSE code.text \in Elements(codes)

\* No call was made yet.
NoCodeCall == [service |-> "none", code |-> NoCode]

\* The panels of the study: one with an away mode only, one with two modes.
CodePanels ==
    {[modes |-> [away |-> {1}, home |-> {}, night |-> {}],
      extra_disarm_sectors |-> {}],
     [modes |-> [away |-> {1, 2}, home |-> {2}, night |-> {}],
      extra_disarm_sectors |-> {}]}

InitCodes ==
    /\ sector_count = ClampStatusCount(REGISTER_STATUS_COUNT)
    /\ device_armed \in SUBSET (1..2)
    /\ panel \in CodePanels
    /\ user_codes \in {UserCodes(raw_codes) : raw_codes \in SavedUserCodes}
    /\ command_job = IdleCommand
    /\ data = None
    /\ last_update_success = TRUE
    /\ refresh_requested = FALSE
    /\ status_required = TRUE
    /\ discrete_inputs = {}
    /\ coils = {}
    /\ holding_registers = {}
    /\ cached_status = None
    /\ cached_inputs = EmptyMap
    /\ cached_coils = EmptyMap
    /\ cached_registers = EmptyMap
    /\ device_coils = [a \in CoilAddresses |-> FALSE]
    /\ refresh_job = IdleRefresh
    /\ write_job = IdleWrite
    /\ poller = "Idle"
    /\ polls = 0
    /\ writes = 0
    /\ written = {}
    /\ alarm_state = "unknown"
    /\ device_healthy = FALSE
    /\ options = NoOptions
    /\ flow = NoFlow
    /\ definitions = << >>
    /\ call = NoCall
    /\ arguments = NoCodeCall
    /\ result = NoResult
    /\ hass = NoHass

\* A call that raised HomeAssistantError before _async_send_command: nothing
\* but the history of the call changes.
CallRaised(reason) ==
    /\ result' = [done |-> TRUE, raised |-> reason]
    /\ UNCHANGED <<sector_count, device_armed, command_job, data,
                   last_update_success, refresh_requested, entity_state>>

\* async_alarm_disarm(code): the code is checked, then the command is sent to
\* the managed sectors, or to all when the panel manages none.
AsyncAlarmDisarmCode(code) ==
    /\ PanelAdded
    /\ arguments' = [service |-> "disarm", code |-> code]
    /\ IF ~RequireValidCode(user_codes, code) THEN CallRaised("invalid_code")
       ELSE /\ result' = [done |-> TRUE, raised |-> "nothing"]
            /\ AsyncSendCommand(IF ManagedSectors(panel) # {}
                                THEN ManagedSectors(panel) ELSE AllSectors,
                                FALSE)

\* async_alarm_arm_away, _home, _night (code): the code is checked, then
\* _target_sectors raises when the mode has no sectors, then the command is
\* sent.
AsyncAlarmArmCode(mode, code) ==
    /\ PanelAdded
    /\ arguments' = [service |-> mode, code |-> code]
    /\ IF ~RequireValidCode(user_codes, code) THEN CallRaised("invalid_code")
       ELSE IF ModeSectors(panel, mode) = {} THEN CallRaised("no_sectors")
       ELSE /\ result' = [done |-> TRUE, raised |-> "nothing"]
            /\ AsyncSendCommand(ModeSectors(panel, mode), TRUE)

NextCodes ==
    \/ AsyncUpdateData
    \/ \E code \in CallCodes : AsyncAlarmDisarmCode(code)
    \/ \E code \in CallCodes : \E i \in 1..Len(MODES) : AsyncAlarmArmCode(MODES[i], code)
    \/ CommandWrite
    \/ CommandFinish

SpecCodes == InitCodes /\ [][NextCodes]_vars

\* A step in which a service of the entity is called.
CodeCallStep ==
    \/ arguments' # arguments
    \/ result' # result
    \/ command_job.pc = "idle" /\ command_job'.pc = "write"

\* The code of the call names none of the configured codes.
CodeNotConfigured(code) ==
    \/ ~code.given
    \/ \A i \in 1..Len(user_codes) : user_codes[i] # code.text

\* C35: with at least one user code configured, a disarm or arm call with no
\* code or with a code that is not in the list raises before anything is
\* written and before a refresh is requested; with no code configured no
\* call is refused for its code, and it is sent when the mode has sectors.
C35_CodeRequiredWhenConfigured ==
    [][CodeCallStep =>
         /\ (user_codes # << >> /\ CodeNotConfigured(arguments'.code))
              => /\ result'.raised = "invalid_code"
                 /\ command_job' = command_job
                 /\ device_armed' = device_armed
                 /\ refresh_requested' = refresh_requested
                 /\ writes' = writes
         /\ user_codes = << >>
              => /\ result'.raised # "invalid_code"
                 /\ (\/ arguments'.service = "disarm"
                     \/ ModeSectors(panel, arguments'.service) # {})
                      => /\ result'.raised = "nothing"
                         /\ command_job'.pc = "write"]_vars

\* A panel with the code "1" was armed with the code " 1": the call raised
\* and nothing was sent.
C35_Witness ==
    /\ user_codes = << <<"1">> >>
    /\ result.done
    /\ arguments.service = "away"
    /\ arguments.code = [given |-> TRUE, text |-> <<" ", "1">>]
    /\ result.raised = "invalid_code"
    /\ command_job = IdleCommand
    /\ ~refresh_requested


(***************************************************************************)
(* refresh() and the address classes                                       *)
(***************************************************************************)
\* The address classes that are read in groups.
AddressClasses == {"inputs", "coils", "registers"}

\* The registered addresses of a class and the cache of the class.
RegisteredAddresses(class) ==
    CASE class = "inputs" -> discrete_inputs
      [] class = "coils" -> coils
      [] class = "registers" -> holding_registers

CachedValues(class) ==
    CASE class = "inputs" -> cached_inputs
      [] class = "coils" -> cached_coils
      [] class = "registers" -> cached_registers

\* The values of a class in a snapshot, or in the caches a refresh found.
ValuesIn(snapshot, class) ==
    CASE class = "inputs" -> snapshot.discrete_inputs
      [] class = "coils" -> snapshot.coils
      [] class = "registers" -> snapshot.holding_registers

\* A refresh() is under way or has returned.
Refreshing == refresh_job.pc \notin {"idle", "start"}

\* C36: a refresh() of an inventory in which a class has no registered
\* address sends no read for the class, leaves the cache of the class as it
\* found it, and returns a snapshot with these cached values.
C36_UnregisteredClassKeepsCache ==
    \A class \in AddressClasses :
      (Refreshing /\ RegisteredAddresses(class) = {})
        => /\ ~(refresh_job.pc = class /\ refresh_job.phase \in {"send", "wait"})
           /\ CachedValues(class) = ValuesIn(refresh_job.before, class)
           /\ refresh_job.pc = "returned"
                => ValuesIn(refresh_job.snapshot, class) = CachedValues(class)

\* No coil is registered, a write has left a value in the coil cache, and a
\* refresh() has returned a snapshot.
C36_Witness ==
    /\ coils = {}
    /\ cached_coils # EmptyMap
    /\ refresh_job.pc = "returned"
    /\ refresh_job.snapshot.coils = cached_coils


\* The reads of a class a refresh() has sent.
ReadsOf(class) ==
    {i \in 1..Len(refresh_job.requests) : refresh_job.requests[i].class = class}

\* The addresses a read covers.
Span(request) == request.start..(request.start + request.count - 1)

\* The runs of consecutive registered addresses of a class, each by its
\* first address and its length.
Runs(class) ==
    LET R == RegisteredAddresses(class)
    IN {[start |-> a, count |-> n] :
          <<a, n>> \in {<<a, n>> \in R \X (1..Cardinality(R)) :
                          /\ a - 1 \notin R
                          /\ a + n \notin R
                          /\ a..(a + n - 1) \subseteq R}}

\* C37: a refresh() that returns has sent, for every class with registered
\* addresses, one read for each run of consecutive addresses, with the first
\* address and the length of the run; the i-th value of each response is
\* what the snapshot and the cache hold for the i-th address of the run; no
\* read of a refresh() covers an address that is not registered.
C37_OneReadPerAddressGroup ==
    \A class \in AddressClasses :
      /\ Refreshing
           => \A i \in ReadsOf(class) :
                Span(refresh_job.requests[i]) \subseteq RegisteredAddresses(class)
      /\ (refresh_job.pc = "returned" /\ RegisteredAddresses(class) # {})
           => /\ {[start |-> refresh_job.requests[i].start,
                   count |-> refresh_job.requests[i].count] : i \in ReadsOf(class)}
                   = Runs(class)
              /\ Cardinality(ReadsOf(class)) = Cardinality(Runs(class))
              /\ \A i \in ReadsOf(class) :
                   LET request == refresh_job.requests[i]
                   IN \A k \in 1..request.count :
                        k <= Len(request.resp.values)
                          => /\ ValuesIn(refresh_job.snapshot, class)[request.start + k - 1]
                                  = request.resp.values[k]
                             /\ CachedValues(class)[request.start + k - 1]
                                  = request.resp.values[k]

\* A refresh() has returned after two reads of discrete inputs that were
\* answered with different values, one read of two coils and one read of a
\* holding register.
C37_Witness ==
    /\ refresh_job.pc = "returned"
    /\ Cardinality(ReadsOf("inputs")) = 2
    /\ \E i, j \in ReadsOf("inputs") :
         refresh_job.requests[i].resp.values[1] # refresh_job.requests[j].resp.values[1]
    /\ \E i \in ReadsOf("coils") : refresh_job.requests[i].count = 2
    /\ ReadsOf("registers") # {}

=============================================================================
